---- MODULE Spec2Model ----
(***************************************************************************)
(* A model of pyccl/base/ccl_object.py: ObjectLock, UnlockInstance,        *)
(* FancyRepr and CCLObject (immutability by unlock scopes, cached          *)
(* representation and hash, representation-based equality).                *)
(*                                                                         *)
(* Classes are rows of the table ClassDef; their class-level slots that    *)
(* the code rewrites at run time (__repr__, _repr, the wrapped methods)    *)
(* are state.  Instances are numbered by their identity (address).  A      *)
(* thread's stack holds one frame per open UnlockInstance scope.           *)
(***************************************************************************)
EXTENDS Integers, Sequences, FiniteSets, TLC

\* ------------------------------------------------------------------ bounds
MaxInst == 2      \* number of instance identities
MaxVal == 1       \* attribute values are 0..MaxVal
MaxDepth == 2     \* open scopes per thread

\* --------------------------------------------------------------- constants
NoId == 0         \* ObjectLock._lock_id = None
Foreign == 0      \* a scope target that is not a CCLObject (True in the test)

Insts == 1..MaxInst
Values == 0..MaxVal
Fields == {"a", "b"}
Threads == {"main", "worker"}
Solo == {1}       \* the instance of the one-instance specification
ScopeIds == 1..(MaxDepth * Cardinality(Threads))

\* ------------------------------------------------------------- class table
\* The classes the model instantiates.  CCLObject and CCLAutoreprObject are
\* the two classes of ccl_object.py.  The others follow classes of the
\* repository and of its tests:
\*   MyType         type("MyType", (CCLObject,), {"test": 0})   (no __init__)
\*   HMIngredients  __repr_attrs__ = __eq_attrs__ = ("mass_def", ...)
\*   Ishiyama21     own __repr_attrs__, __eq_attrs__ inherited, __init__
\*                  calls super().__init__
\*   Duffy08        declares no attribute list of its own, __init__ calls
\*                  super().__init__; its A, B, C are not listed
\*   MyAutoType     type("MyType", (CCLAutoreprObject,), {"test": 0})
\*   Profile        own __repr__, __init__ and update_parameters
\*   SubProfile     subclass of Profile that defines nothing
\* Attribute "a" stands for mass_def, "b" for relaxed / A / a profile
\* parameter.
\* Every class attribute has the class-level default 0.
LibraryClasses == <<"CCLAutoreprObject", "MyType", "HMIngredients", "Ishiyama21",
                    "Duffy08", "MyAutoType">>
UserClasses == {"Profile", "SubProfile"}
ClassNames == {"CCLObject", "CCLAutoreprObject", "MyType", "HMIngredients",
               "Ishiyama21", "Duffy08", "MyAutoType", "Profile", "SubProfile"}

\* HMIngredients has abstract methods: it is never instantiated.
Concrete == ClassNames \ {"HMIngredients"}

\* The classes of the one-instance specification: one class of each
\* behaviour (Duffy08 and MyAutoType differ from Ishiyama21 and
\* CCLAutoreprObject only when two instances are compared).
SoloClasses == Concrete \ {"Duffy08", "MyAutoType"}

NoAttrs == <<"-">>   \* the class does not declare the attribute list

ClassDef ==
  [c \in ClassNames |->
     CASE c = "CCLObject" ->
            [parent |-> "object", init |-> FALSE, repr |-> FALSE,
             update |-> FALSE, repr_attrs |-> NoAttrs, eq_attrs |-> NoAttrs]
       [] c = "CCLAutoreprObject" ->
            [parent |-> "CCLObject", init |-> FALSE, repr |-> TRUE,
             update |-> FALSE, repr_attrs |-> NoAttrs, eq_attrs |-> NoAttrs]
       [] c = "MyType" ->
            [parent |-> "CCLObject", init |-> FALSE, repr |-> FALSE,
             update |-> FALSE, repr_attrs |-> NoAttrs, eq_attrs |-> NoAttrs]
       [] c = "HMIngredients" ->
            [parent |-> "CCLAutoreprObject", init |-> TRUE, repr |-> FALSE,
             update |-> FALSE, repr_attrs |-> <<"a">>, eq_attrs |-> <<"a">>]
       [] c = "Ishiyama21" ->
            [parent |-> "HMIngredients", init |-> TRUE, repr |-> FALSE,
             update |-> FALSE, repr_attrs |-> <<"a", "b">>, eq_attrs |-> NoAttrs]
       [] c = "Duffy08" ->
            [parent |-> "HMIngredients", init |-> TRUE, repr |-> FALSE,
             update |-> FALSE, repr_attrs |-> NoAttrs, eq_attrs |-> NoAttrs]
       [] c = "MyAutoType" ->
            [parent |-> "CCLAutoreprObject", init |-> FALSE, repr |-> FALSE,
             update |-> FALSE, repr_attrs |-> NoAttrs, eq_attrs |-> NoAttrs]
       [] c = "Profile" ->
            [parent |-> "CCLObject", init |-> TRUE, repr |-> TRUE,
             update |-> TRUE, repr_attrs |-> NoAttrs, eq_attrs |-> NoAttrs]
       [] c = "SubProfile" ->
            [parent |-> "Profile", init |-> FALSE, repr |-> FALSE,
             update |-> FALSE, repr_attrs |-> NoAttrs, eq_attrs |-> NoAttrs]]

\* Method resolution order of class c, c first, CCLObject last.
RECURSIVE MRO(_)
MRO(c) == IF c = "CCLObject" THEN <<c>> ELSE <<c>> \o MRO(ClassDef[c].parent)

\* ------------------------------------------------------------------- state
VARIABLES
  defined,       \* classes that exist (their __init_subclass__ has run)
  repr_slot,     \* vars(cl)["__repr__"]: "absent" | "custom" | "ccl" | "object"
  repr_prop,     \* vars(cl)["_repr"]: "absent" | "default" | "custom"
  unlocked,      \* methods of cl that Funlock has wrapped
  enabled,       \* FancyRepr._enabled
  classes,       \* keys of FancyRepr._classes
  phase,         \* instance: "free" | "init" (in its constructor) | "live"
  itype,         \* instance.__class__
  attrs,         \* instance attribute values
  locked,        \* instance._object_lock._locked
  lock_id,       \* instance._object_lock._lock_id
  cached_repr,   \* instance.__dict__["_repr"], NoRepr when absent
  cached_hash,   \* instance.__dict__["_hash"], NoHash when absent
  stale,         \* history: cache entries that predate a mutating write
  dirty,         \* history: the cached _repr predates an assignment to an
                 \* attribute of the representation
  stack,         \* per thread: frames of the open UnlockInstance scopes
  exc,           \* per thread: the exception that is propagating
  pc,            \* per thread: the statement of __enter__, __exit__ or
                 \* ObjectLock it is at, when these run statement by statement
  wrapper,       \* the callable that unlock_instance returned last
  emulators,     \* Emulator.emulators: the entry stored under each name
  loads,         \* history: the number of calls of _load, per name
  streak,        \* history, per name: the configuration of the emulators
                 \* constructed last, all with the same one, whether they
                 \* are several, and the number of calls of _load their
                 \* constructions made
  toggle,        \* per thread: the FancyRepr.enable() or disable() it is
                 \* running and the position of its loop over _classes
  ingredients,   \* per halo-model ingredient object: its attributes after
                 \* the last call of its constructor
  stored_bounds, \* the Bounds object: whether there is one, and its bounds
  checked        \* the last call of Bounds(...) or check_bounds: its
                 \* argument, the exception and the warnings it raised

clsvars == <<defined, repr_slot, repr_prop, unlocked>>
fancyvars == <<enabled, classes>>
lockvars == <<locked, lock_id>>
cachevars == <<cached_repr, cached_hash, stale, dirty>>
instvars == <<phase, itype, attrs>>
auxvars == <<pc, wrapper>>
emuvars == <<emulators, loads, streak>>
boundvars == <<stored_bounds, checked>>
libvars == <<toggle, ingredients, stored_bounds, checked>>
vars == <<defined, repr_slot, repr_prop, unlocked, enabled, classes, phase,
          itype, attrs, locked, lock_id, cached_repr, cached_hash, stale,
          dirty, stack, exc, pc, wrapper, emulators, loads,
          streak, toggle, ingredients, stored_bounds, checked>>

\* --------------------------------------------------------- class machinery
\* The class-level state as one record, so that __init_subclass__ can be
\* applied both at import time (Init) and at run time (DefineClass).
ClassState(d, rs, rp, u, k) ==
  [defined |-> d, repr_slot |-> rs, repr_prop |-> rp, unlocked |-> u, classes |-> k]

\* FancyRepr.add: cls._classes[cl] = cl.__repr__
FancyAdd(cl, st) == [st EXCEPT !.classes = @ \cup {cl}]

\* FancyRepr.bind_and_replace: cl._repr = cached_property(method);
\* cl.__repr__ = cl.__ccl_repr__
BindAndReplace(cl, st) ==
  [st EXCEPT !.repr_prop[cl] = "custom", !.repr_slot[cl] = "ccl"]

\* UnlockInstance.Funlock: wrap vars(cl)[name] if the class defines it.
Funlock(cl, name, has, st) ==
  IF has THEN [st EXCEPT !.unlocked[cl] = @ \cup {name}] ELSE st

\* CCLObject.__init_subclass__ for the new class cl, whose body has just
\* been executed (its own __repr__, if any, is in vars(cl)).
InitSubclass(cl, st) ==
  LET s0 == [st EXCEPT !.defined = @ \cup {cl},
                       !.repr_slot[cl] = IF ClassDef[cl].repr THEN "custom" ELSE "absent"]
      s1 == IF ClassDef[cl].repr THEN BindAndReplace(cl, FancyAdd(cl, s0)) ELSE s0
      s2 == Funlock(cl, "__init__", ClassDef[cl].init, s1)
  IN  Funlock(cl, "update_parameters", ClassDef[cl].update, s2)

\* The class CCLObject itself: __repr__ = __ccl_repr__, _repr is the cached
\* property around object.__repr__, nothing is wrapped.
BaseClassState ==
  ClassState({"CCLObject"},
             [c \in ClassNames |-> IF c = "CCLObject" THEN "ccl" ELSE "absent"],
             [c \in ClassNames |-> IF c = "CCLObject" THEN "default" ELSE "absent"],
             [c \in ClassNames |-> {}],
             {})

RECURSIVE ImportClasses(_, _)
ImportClasses(seq, st) ==
  IF seq = <<>> THEN st
  ELSE ImportClasses(Tail(seq), InitSubclass(Head(seq), st))

ImportedState == ImportClasses(LibraryClasses, BaseClassState)

\* First class of the MRO of c, from position k on, whose slot is set in f.
RECURSIVE Resolve(_, _, _)
Resolve(m, f, absent) ==
  IF m = <<>> THEN "object"
  ELSE IF f[Head(m)] # absent THEN Head(m)
  ELSE Resolve(Tail(m), f, absent)

\* type(x).__repr__ as the attribute lookup finds it.
ReprSlot(c) == LET o == Resolve(MRO(c), repr_slot, "absent")
               IN  IF o = "object" THEN "object" ELSE repr_slot[o]

\* The class whose _repr cached property the lookup x._repr finds.
ReprPropOwner(c) == Resolve(MRO(c), repr_prop, "absent")

\* The class whose (wrapped) method `name` the lookup finds, "object" if none
\* of the subclasses of CCLObject defines it.
MethodOwner(c, name) ==
  Resolve(MRO(c), [k \in ClassNames |-> name \in unlocked[k]], FALSE)

\* hasattr(cls, "__repr_attrs__") / hasattr(self, "__eq_attrs__") and the
\* inherited value.
ReprAttrs(c) ==
  LET o == Resolve(MRO(c), [k \in ClassNames |-> ClassDef[k].repr_attrs], NoAttrs)
  IN  IF o = "object" THEN NoAttrs ELSE ClassDef[o].repr_attrs

EqAttrs(c) ==
  LET o == Resolve(MRO(c), [k \in ClassNames |-> ClassDef[k].eq_attrs], NoAttrs)
  IN  IF o = "object" THEN NoAttrs ELSE ClassDef[o].eq_attrs

\* _fancy_repr with only CCLObject holding the attribute: subclasses find
\* FancyRepr by inheritance.
FancyReprSlotInherited(c) == IF c = "CCLObject" THEN "FancyRepr" ELSE "absent"

\* vars(c)["_fancy_repr"]: FancyRepr in CCLObject; __init_subclass__ puts a
\* _DisableGetMethod descriptor in every subclass.
FancyReprSlot(c) ==
  IF c = "CCLObject" THEN "FancyRepr"
  ELSE IF c \in defined THEN "_DisableGetMethod" ELSE "absent"

\* c._fancy_repr, and x._fancy_repr for an instance x of c: the value the
\* lookup finds, "AttributeError" when it is the descriptor, whose __get__
\* raises.
GetFancyRepr(c) ==
  LET o == Resolve(MRO(c), [k \in ClassNames |-> FancyReprSlot(k)], "absent")
  IN  IF FancyReprSlot(o) = "FancyRepr" THEN "FancyRepr" ELSE "AttributeError"

\* -------------------------------------------------------- representations
\* A representation string is modelled by its content.
NoRepr == [kind |-> "absent", cls |-> "", id |-> 0, vals |-> <<>>]

\* A default representation that shows the class and not the address.
ClassNameRepr(i) == [kind |-> "object", cls |-> itype[i], id |-> 0, vals |-> <<>>]

\* object.__repr__(x): "<module.Class object at 0x...>"
ObjectRepr(i) == [kind |-> "object", cls |-> itype[i], id |-> i, vals |-> <<>>]

\* build_string_from_attrs(x): the class name as header, then the listed
\* attributes in declared order.
BuildStringFromAttrs(i) ==
  LET l == ReprAttrs(itype[i])
  IN  [kind |-> "attrs", cls |-> itype[i], id |-> 0,
       vals |-> [k \in 1..Len(l) |-> attrs[i][l[k]]]]

\* The original __repr__ of the registered class cl, applied to instance i.
CustomRepr(cl, i) ==
  IF cl = "CCLAutoreprObject"
  THEN IF ReprAttrs(itype[i]) # NoAttrs THEN BuildStringFromAttrs(i) ELSE ObjectRepr(i)
  ELSE [kind |-> "custom", cls |-> "", id |-> 0, vals |-> <<attrs[i]["a"], attrs[i]["b"]>>]

\* The body of the _repr cached property that x._repr finds.
ComputeRepr(i) ==
  LET o == ReprPropOwner(itype[i])
  IN  IF repr_prop[o] = "default" THEN ObjectRepr(i) ELSE CustomRepr(o, i)

\* A _repr that is computed at every read.
ReprRecomputed(i) ==
  IF ReprSlot(itype[i]) = "ccl" THEN ComputeRepr(i) ELSE cached_repr[i]

\* The value x.__dict__["_repr"] holds after repr(x).
ReprCacheAfter(i) ==
  IF ReprSlot(itype[i]) = "ccl" /\ cached_repr[i] = NoRepr
  THEN ComputeRepr(i) ELSE cached_repr[i]

\* repr(x)
Repr(i) == IF ReprSlot(itype[i]) = "ccl" THEN ReprCacheAfter(i) ELSE ObjectRepr(i)

\* hash(s) of a string s.
StrHash(r) == [of |-> r]
NoHash == [of |-> NoRepr]

\* CCLObject._hash / __hash__
Hash(i) == IF cached_hash[i] # NoHash THEN cached_hash[i] ELSE StrHash(Repr(i))

\* __eq__ without the comparison of the two classes.
EqIgnoringClass(x, y) ==
  IF EqAttrs(itype[x]) # NoAttrs
  THEN \A k \in 1..Len(EqAttrs(itype[x])) :
          attrs[x][EqAttrs(itype[x])[k]] = attrs[y][EqAttrs(itype[x])[k]]
  ELSE Repr(x) = Repr(y)

\* __eq__ that compares the representations whether or not the class has
\* __eq_attrs__.
EqByReprOnly(x, y) ==
  IF itype[x] # itype[y] THEN FALSE ELSE Repr(x) = Repr(y)

\* CCLObject.__eq__
Eq(x, y) ==
  IF itype[x] # itype[y] THEN FALSE
  ELSE IF EqAttrs(itype[x]) # NoAttrs
  THEN \A k \in 1..Len(EqAttrs(itype[x])) :
          attrs[x][EqAttrs(itype[x])[k]] = attrs[y][EqAttrs(itype[x])[k]]
  ELSE Repr(x) = Repr(y)

\* ------------------------------------------------------------- ObjectLock
\* The lock of one instance is the record [locked, lock_id].
ObjectLock == [locked |-> FALSE, lock_id |-> NoId]

\* ObjectLock.active
Active(l) == l.lock_id # NoId

\* ObjectLock.__repr__: "ObjectLock(locked=...)"
LockRepr(l) == [cls |-> "ObjectLock", locked |-> l.locked]

\* lock() that sets the flag and keeps the scope id.
LockKeepsId(l) == [locked |-> TRUE, lock_id |-> l.lock_id]

\* ObjectLock.lock
Lock(l) == [locked |-> TRUE, lock_id |-> NoId]

\* ObjectLock.unlock(manager_id)
Unlock(l, manager_id) ==
  [locked |-> FALSE,
   lock_id |-> IF manager_id # NoId THEN manager_id ELSE l.lock_id]

\* --------------------------------------------------------- UnlockInstance
\* A frame is one UnlockInstance object whose scope is open:
\*   inst    the instance it was created for
\*   id      id(self) of the context manager
\*   mutate  its mutate flag
\*   kind    what opened it: the wrapper of "__init__" or of
\*           "update_parameters", or a "with" statement
\*   ctor    TRUE for the scope of the wrapped __init__ that the
\*           constructor call itself entered
\*   cls     the class whose __init__ runs in the scope ("" otherwise)
Frame(i, id, mutate, kind, ctor, cls) ==
  [inst |-> i, id |-> id, mutate |-> mutate, kind |-> kind, ctor |-> ctor,
   cls |-> cls]

\* UnlockInstance.__init__: self.check_instance = isinstance(instance, CCLObject)
CheckInstance(i) == i \in Insts

\* UnlockInstance.__enter__ on the lock l of a CCLObject instance.
Enter(l, id) == IF Active(l) THEN l ELSE Unlock(l, id)

\* The part of an instance that __exit__ works on.
ExitState(i) == [locked |-> locked[i], lock_id |-> lock_id[i],
                 repr |-> cached_repr[i], hash |-> cached_hash[i]]

\* try: delattr(instance, "_repr"); delattr(instance, "_hash")
\* except AttributeError: pass
DelCaches(st) ==
  IF st.repr # NoRepr THEN [st EXCEPT !.repr = NoRepr, !.hash = NoHash] ELSE st

\* __exit__ without the comparison of self.id with the lock's _lock_id.
ExitAnyScope(st, fr) ==
  LET c == IF fr.mutate THEN DelCaches(st) ELSE st
      l == Lock([locked |-> c.locked, lock_id |-> c.lock_id])
  IN  [c EXCEPT !.locked = l.locked, !.lock_id = l.lock_id]

\* __exit__ that deletes the cache entries whatever the mutate flag is.
ExitAlwaysInvalidates(st, fr) ==
  IF fr.id # st.lock_id THEN st
  ELSE LET c == DelCaches(st)
           l == Lock([locked |-> c.locked, lock_id |-> c.lock_id])
       IN  [c EXCEPT !.locked = l.locked, !.lock_id = l.lock_id]

\* UnlockInstance.__exit__ of the scope fr on the state st of its instance.
Exit(st, fr) ==
  IF fr.id # st.lock_id THEN st
  ELSE LET c == IF fr.mutate THEN DelCaches(st) ELSE st
           l == Lock([locked |-> c.locked, lock_id |-> c.lock_id])
       IN  [c EXCEPT !.locked = l.locked, !.lock_id = l.lock_id]

\* __setattr__ without its check of the lock.
SetattrNeverRaises(i) == FALSE

\* CCLObject.__setattr__: TRUE when the assignment raises AttributeError.
SetattrRaises(i) == locked[i]

\* ---------------------------------------------------------------- helpers
Depth(th) == Len(stack[th])
Top(th) == stack[th][Len(stack[th])]
Running(th) == exc[th] = "none"
Holds(th, i) == \E k \in 1..Len(stack[th]) : stack[th][k].inst = i
Accessible(th, i) == phase[i] = "live" \/ (phase[i] = "init" /\ Holds(th, i))

LiveIds == UNION {{stack[th][k].id : k \in 1..Len(stack[th])} : th \in Threads}

\* id(self) of a new context manager: an address no live one has.
FreshId == CHOOSE n \in ScopeIds : n \notin LiveIds /\ \A m \in ScopeIds : m < n => m \in LiveIds

\* The identity of the next instance: the first free one, NoId if none.
FreeInsts == {i \in Insts : phase[i] = "free"}
NewInst == IF FreeInsts = {} THEN NoId
           ELSE CHOOSE i \in FreeInsts : \A j \in FreeInsts : i <= j

\* Does attribute f take part in the representation of instances of c ?
Participates(c, f) ==
  LET o == ReprPropOwner(c)
  IN  IF repr_prop[o] = "default" THEN FALSE
      ELSE IF o = "CCLAutoreprObject"
      THEN ReprAttrs(c) # NoAttrs /\ \E k \in 1..Len(ReprAttrs(c)) : ReprAttrs(c)[k] = f
      ELSE TRUE

\* The cache entries of instance i that are present.
Present(i) == (IF cached_repr[i] # NoRepr THEN {"_repr"} ELSE {})
              \cup (IF cached_hash[i] # NoHash THEN {"_hash"} ELSE {})

\* Pushing a scope on instance i: the frame and the effect of __enter__.
\* A target that is not a CCLObject has no lock: __enter__ returns at once.
Open(th, i, mutate, kind, ctor, cls) ==
  /\ Depth(th) < MaxDepth
  /\ stack' = [stack EXCEPT ![th] = Append(@, Frame(i, FreshId, mutate, kind, ctor, cls))]
  /\ IF CheckInstance(i)
     THEN LET l == Enter([locked |-> locked[i], lock_id |-> lock_id[i]], FreshId)
          IN  /\ locked' = [locked EXCEPT ![i] = l.locked]
              /\ lock_id' = [lock_id EXCEPT ![i] = l.lock_id]
     ELSE UNCHANGED lockvars

\* Popping the top scope: the effect of __exit__.
\* For a target that is not a CCLObject __exit__ returns at once.
Close(th) ==
  LET fr == Top(th)
  IN  /\ stack' = [stack EXCEPT ![th] = SubSeq(@, 1, Len(@) - 1)]
      /\ IF CheckInstance(fr.inst)
         THEN LET st == Exit(ExitState(fr.inst), fr)
              IN  /\ locked' = [locked EXCEPT ![fr.inst] = st.locked]
                  /\ lock_id' = [lock_id EXCEPT ![fr.inst] = st.lock_id]
                  /\ cached_repr' = [cached_repr EXCEPT ![fr.inst] = st.repr]
                  /\ cached_hash' = [cached_hash EXCEPT ![fr.inst] = st.hash]
                  /\ stale' = [stale EXCEPT ![fr.inst] =
                        @ \ ((IF st.repr = NoRepr THEN {"_repr"} ELSE {})
                             \cup (IF st.hash = NoHash THEN {"_hash"} ELSE {}))]
                  /\ dirty' = [dirty EXCEPT ![fr.inst] = @ /\ st.repr # NoRepr]
         ELSE UNCHANGED <<lockvars, cachevars>>

\* ------------------------------------------------------- unlock_instance
\* A signature is the sequence of the declared parameters of a function,
\* each with its name and whether it has no default.
Param(n, req) == [name |-> n, required |-> req]

\* def f(): ... / def f(self): ... / def f(self, pk=None): ... /
\* def func2(item, pk, a0=0): ...
Signatures ==
  { <<>>,
    <<Param("self", TRUE)>>,
    <<Param("self", TRUE), Param("pk", FALSE)>>,
    <<Param("item", TRUE), Param("pk", TRUE), Param("a0", FALSE)>> }

NoName == ""       \* name=None
DecoNames == {NoName, "self", "pk", "hello"}
KwNames == {"pk", "hello"}
MaxArgs == 2       \* positional arguments of a call
ArgVals == Solo \cup {Foreign}

Names(sig) == {sig[k].name : k \in 1..Len(sig)}
Position(sig, n) == CHOOSE k \in 1..Len(sig) : sig[k].name = n

NoWrapper == [sig |-> <<>>, name |-> NoName, mutate |-> FALSE]

\* unlock_instance without the check that the name is a parameter.
UnlockInstanceAnyName(sig, name, mutate) ==
  IF name = NoName /\ sig = <<>>
  THEN [error |-> "IndexError", wrapper |-> NoWrapper]
  ELSE [error |-> "none",
        wrapper |-> [sig |-> sig, mutate |-> mutate,
                     name |-> IF name = NoName THEN sig[1].name ELSE name]]

\* unlock_instance(name=name, mutate=mutate)(func), func of signature sig:
\* the error it raises, or the wrapper it returns.
UnlockInstanceDecorator(sig, name, mutate) ==
  IF name = NoName /\ sig = <<>>
  THEN [error |-> "IndexError", wrapper |-> NoWrapper]
  ELSE LET n == IF name = NoName THEN sig[1].name ELSE name
       IN  IF n \notin Names(sig)
           THEN [error |-> "NameError", wrapper |-> NoWrapper]
           ELSE [error |-> "none",
                 wrapper |-> [sig |-> sig, name |-> n, mutate |-> mutate]]

\* A call passes positional values pos and at most one keyword value kw;
\* the values it passes are all the instance or all a foreign value.
Calls ==
  {[pos |-> [k \in 1..n |-> v], kw |-> [m \in K |-> v]] :
     n \in 0..MaxArgs, K \in {{}} \cup {{m} : m \in KwNames}, v \in ArgVals}

\* func.__signature__.bind(*args, **kwargs) succeeds: no positional value
\* in excess, no unknown name, no parameter given twice, no required
\* parameter missing.
Binds(sig, call) ==
  /\ Len(call.pos) <= Len(sig)
  /\ DOMAIN call.kw \subseteq Names(sig)
  /\ \A k \in 1..Len(sig) :
        IF k <= Len(call.pos) THEN sig[k].name \notin DOMAIN call.kw
        ELSE sig[k].required => sig[k].name \in DOMAIN call.kw

\* bound.arguments: the parameters that were passed (defaults not applied).
BoundArguments(sig, call) ==
  [n \in {sig[k].name : k \in 1..Len(call.pos)} \cup DOMAIN call.kw |->
     IF n \in DOMAIN call.kw THEN call.kw[n] ELSE call.pos[Position(sig, n)]]

\* ------------------------------------------------------- statement steps
\* A thread that is not inside __enter__, __exit__ or an ObjectLock method.
Idle == [at |-> "run", inst |-> NoId, id |-> NoId, scope |-> FALSE]

\* ----------------------------------------------------------------- Emulator
\* pyccl/emulator.py: the class attribute Emulator.emulators maps a name to
\* an entry {"model", "config", "bounds"}.  Emulator itself has the name
\* "emulator_base" and a _load that raises; the subclasses EmuOne and EmuTwo
\* have names of their own and a _load that returns the model of the
\* instance's configuration.
MaxConfig == 1    \* configurations (_config_emu_kwargs) are 0..MaxConfig
MaxLoads == 3     \* calls of _load per name

EmuClasses == {"Emulator", "EmuOne", "EmuTwo"}
EmuDef ==
  [c \in EmuClasses |->
     CASE c = "Emulator" -> [name |-> "emulator_base", load |-> FALSE]
       [] c = "EmuOne" -> [name |-> "one", load |-> TRUE]
       [] c = "EmuTwo" -> [name |-> "two", load |-> TRUE]]
EmuNames == {EmuDef[c].name : c \in EmuClasses}

\* Configuration 0 is {}, the one __init__ gives an instance that has none.
Configs == 0..MaxConfig
NoConfig == -1                              \* entry["config"] is None
NoModel == [cls |-> "", config |-> NoConfig] \* entry["model"] is None
NoBounds == -1                              \* entry["bounds"] is None
EmuBounds == {0, 1}
NoEntry == [model |-> NoModel, config |-> NoConfig, bounds |-> NoBounds,
            present |-> FALSE]

\* No emulator of the name has been constructed.
NoStreak == [config |-> NoConfig, again |-> FALSE, loaded |-> 0]

\* The streak of a name after one more emulator of configuration cfg has
\* been constructed, with n calls of _load.
Streak(s, cfg, n) ==
  IF s.config = cfg THEN [s EXCEPT !.again = TRUE, !.loaded = @ + n]
  ELSE [config |-> cfg, again |-> FALSE, loaded |-> n]

\* Emulator._has_entry
HasEntry(e, name) == e[name].present

\* _set_entry that rebinds the registry to a dict with the one entry.
SetEntryAlone(e, name) ==
  [n \in DOMAIN e |->
     IF n = name
     THEN [model |-> NoModel, config |-> NoConfig, bounds |-> NoBounds, present |-> TRUE]
     ELSE [model |-> NoModel, config |-> NoConfig, bounds |-> NoBounds, present |-> FALSE]]

\* Emulator._set_entry: dict.fromkeys(["model", "config", "bounds"])
SetEntry(e, name) ==
  [e EXCEPT ![name] = [model |-> NoModel, config |-> NoConfig,
                       bounds |-> NoBounds, present |-> TRUE]]

\* Emulator._has_config
HasConfig(e, name) == e[name].config # NoConfig

\* Emulator._get_config
GetConfig(e, name) == IF HasConfig(e, name) THEN e[name].config ELSE NoConfig

\* self._reload, as _has_model sets it for an instance of configuration cfg
Reload(e, name, cfg) == GetConfig(e, name) # cfg

\* _has_model that looks at the stored model only.
HasModelAnyConfig(e, name, cfg) == e[name].model # NoModel

\* Emulator._has_model
HasModel(e, name, cfg) ==
  IF Reload(e, name, cfg) THEN FALSE ELSE e[name].model # NoModel

\* What _load of class c returns for an instance of configuration cfg.
Load(c, cfg) == [cls |-> c, config |-> cfg]

\* Emulator._set_model, after _load has returned
SetModel(e, name, model) == [e EXCEPT ![name].model = model]

\* Emulator._set_config
SetConfig(e, name, cfg) == [e EXCEPT ![name].config = cfg]

\* Emulator._set_bounds(bounds) with key=None
SetBoundsEntry(e, name, bounds) == [e EXCEPT ![name].bounds = bounds]

\* ------------------------------------------------- FancyRepr, by statement
\* enable() and disable() taken one statement at a time: the body of the
\* loop over _classes for one class, then the assignment of _enabled.
NoToggle == [op |-> "none", k |-> 0]

\* The keys of FancyRepr._classes in the order of the dict: the order in
\* which the classes were added.
ClassesInOrder ==
  SelectSeq(LibraryClasses \o <<"Profile", "SubProfile">>, LAMBDA c : c \in classes)

\* ------------------------------------------------- halo-model ingredients
\* pyccl/halos: HMIngredients.__init__ and the concentrations' tables.
MaxIngr == 2      \* ingredient objects that are constructed
Slots == 1..MaxIngr

IngrClasses == {"MassFuncTinker08", "ConcentrationDuffy08",
                "ConcentrationBhattacharya13", "ConcentrationIshiyama21"}
Concentrations == IngrClasses \ {"MassFuncTinker08"}

\* Mass definitions: what the checks and the tables read of them is name and
\* Delta (a number, written as its digits, or "vir" or "fof").
MassDefs ==
  {[name |-> "200m", Delta |-> "200"], [name |-> "200c", Delta |-> "200"],
   [name |-> "500c", Delta |-> "500"], [name |-> "vir", Delta |-> "vir"],
   [name |-> "fof", Delta |-> "fof"]}
NoMassDef == [name |-> "-", Delta |-> "-"]

\* An object before its __init__ has assigned anything.  `has` holds the
\* names of the attributes that are assigned, `given` the mass definition
\* the constructor was called with, `error` the exception it raised.
NoIngredient ==
  [cls |-> "-", has |-> {}, relaxed |-> FALSE, Vmax |-> FALSE,
   mass_def_strict |-> FALSE, mass_def |-> NoMassDef, given |-> NoMassDef,
   error |-> "none"]

\* _mass_def_strict_always: False for MassFunc, True for Concentration
MassDefStrictAlways(c) == c \in Concentrations

\* Ishiyama21's check without is_500Vmax.
CheckMassDefStrictByName(o, md) ==
  CASE o.cls = "MassFuncTinker08" -> md.Delta = "fof"
    [] o.cls \in {"ConcentrationDuffy08", "ConcentrationBhattacharya13"} ->
         md.name \notin {"vir", "200m", "200c"}
    [] o.cls = "ConcentrationIshiyama21" ->
         md.name \notin {"vir", "200c", "500c"}

\* _check_mass_def_strict of each class: is md incompatible with o?
CheckMassDefStrict(o, md) ==
  CASE o.cls = "MassFuncTinker08" -> md.Delta = "fof"
    [] o.cls \in {"ConcentrationDuffy08", "ConcentrationBhattacharya13"} ->
         md.name \notin {"vir", "200m", "200c"}
    [] o.cls = "ConcentrationIshiyama21" ->
         md.name \notin {"vir", "200c", "500c"} \/ (md.Delta = "500" /\ o.Vmax)

\* A check that raises for strict-always classes only.
CheckMassDefAlwaysOnly(o, md) ==
  IF CheckMassDefStrict(o, md) /\ MassDefStrictAlways(o.cls)
  THEN "ValueError" ELSE "none"

\* HMIngredients._check_mass_def: the exception it raises
CheckMassDef(o, md) ==
  IF CheckMassDefStrict(o, md)
  THEN IF MassDefStrictAlways(o.cls) THEN "ValueError"
       ELSE IF o.mass_def_strict THEN "ValueError"
       ELSE "none"
  ELSE "none"

\* The keys of the dict `vals` of each _setup.
SetupKeys(c) ==
  CASE c \in {"ConcentrationDuffy08", "ConcentrationBhattacharya13"} ->
         {"vir", "200m", "200c"}
    [] c = "ConcentrationIshiyama21" ->
         {<<TRUE, TRUE, "200">>, <<TRUE, FALSE, "200">>,
          <<FALSE, TRUE, "200">>, <<FALSE, FALSE, "200">>,
          <<TRUE, TRUE, "vir">>, <<TRUE, FALSE, "vir">>,
          <<FALSE, TRUE, "vir">>, <<FALSE, FALSE, "vir">>,
          <<FALSE, TRUE, "500">>, <<FALSE, FALSE, "500">>}

\* The key that _setup looks up.
SetupKey(o) ==
  IF o.cls = "ConcentrationIshiyama21"
  THEN <<o.Vmax, o.relaxed, o.mass_def.Delta>>
  ELSE o.mass_def.name

\* The attributes that _setup assigns.
FitParams(c) ==
  CASE c = "MassFuncTinker08" -> {"pA0", "pa0", "pb0", "pc"}
    [] c \in {"ConcentrationDuffy08", "ConcentrationBhattacharya13"} -> {"A", "B", "C"}
    [] c = "ConcentrationIshiyama21" -> {"kappa", "a0", "a1", "b0", "b1", "c_alpha"}

\* _setup: Tinker08 builds its interpolators; the concentrations unpack
\* vals[key], a KeyError when the table has no such key.
Setup(o) ==
  IF o.cls \in Concentrations /\ SetupKey(o) \notin SetupKeys(o.cls)
  THEN [o EXCEPT !.error = "KeyError"]
  ELSE [o EXCEPT !.has = @ \cup FitParams(o.cls)]

\* HMIngredients.__init__(mass_def=md, mass_def_strict=strict), the mass
\* definition being a MassDef (create_instance has returned it).
HMInit(o, md, strict) ==
  LET o1 == [o EXCEPT !.given = md, !.mass_def_strict = strict,
                      !.has = @ \cup {"mass_def_strict"}]
  IN  IF CheckMassDef(o1, md) # "none"
      THEN [o1 EXCEPT !.error = CheckMassDef(o1, md)]
      ELSE Setup([o1 EXCEPT !.mass_def = md, !.has = @ \cup {"mass_def"}])

\* __init__ of the class: Ishiyama21 assigns its flags first, every
\* Concentration passes mass_def_strict=True.
IngrInit(c, md, strict, relaxed, vmax) ==
  LET o == [NoIngredient EXCEPT !.cls = c]
  IN  CASE c = "MassFuncTinker08" -> HMInit(o, md, strict)
        [] c \in {"ConcentrationDuffy08", "ConcentrationBhattacharya13"} ->
             HMInit(o, md, TRUE)
        [] c = "ConcentrationIshiyama21" ->
             HMInit([o EXCEPT !.relaxed = relaxed, !.Vmax = vmax,
                              !.has = {"relaxed", "Vmax"}], md, TRUE)

\* The arguments each constructor takes.
IngrArgs(c, strict, relaxed, vmax) ==
  /\ c # "MassFuncTinker08" => strict
  /\ c # "ConcentrationIshiyama21" => ~relaxed /\ ~vmax

\* ----------------------------------------------------------------- Bounds
\* pyccl/emulator.py, class Bounds: a dict of parameters and their
\* [vmin, vmax], and proposals checked against it.
MaxBound == 2     \* limits and proposed values are 0..MaxBound
Params == {"p", "q"}
ParOrder == <<"p", "q">>   \* the order of the keys of the dict of bounds
Limits == 0..MaxBound
NoBound == <<>>            \* the parameter is not a key of the dict

\* The dicts a Bounds is constructed with.
BoundsDicts == [Params -> (Limits \X Limits) \cup {NoBound}]

\* The dicts of proposals: items in the order of the dict.
Proposals ==
  {s \in UNION {[1..n -> Params \X Limits] : n \in 0..Cardinality(Params)} :
     \A i, j \in DOMAIN s : i # j => s[i][1] # s[j][1]}

NoBoundsObject == [made |-> FALSE, bounds |-> [p \in Params |-> NoBound]]
NoCall == [op |-> "none", arg |-> [p \in Params |-> NoBound], proposal |-> <<>>,
           error |-> "none", warned |-> {}]

\* Bounds.__init__, the loop from the k-th key on: the exception raised.
RECURSIVE InitLoop(_, _)
InitLoop(b, k) ==
  IF k > Len(ParOrder) THEN "none"
  ELSE IF b[ParOrder[k]] = NoBound THEN InitLoop(b, k + 1)
  ELSE IF ~(b[ParOrder[k]][1] <= b[ParOrder[k]][2]) THEN "ValueError"
  ELSE InitLoop(b, k + 1)

\* check_bounds with the limits excluded.
RECURSIVE CheckLoopExclusive(_, _, _, _)
CheckLoopExclusive(b, proposal, k, warned) ==
  IF k > Len(proposal) THEN [error |-> "none", warned |-> warned, bounds |-> b]
  ELSE LET par == proposal[k][1]
           val == proposal[k][2]
       IN  IF b[par] = NoBound
           THEN CheckLoopExclusive(b, proposal, k + 1, warned \cup {par})
           ELSE IF ~(b[par][1] < val /\ val < b[par][2])
           THEN [error |-> "ValueError", warned |-> warned, bounds |-> b]
           ELSE CheckLoopExclusive(b, proposal, k + 1, warned)

\* Bounds.check_bounds, the loop from the k-th item of the proposal on: the
\* exception raised, the parameters warned about, and self.bounds.
RECURSIVE CheckLoop(_, _, _, _)
CheckLoop(b, proposal, k, warned) ==
  IF k > Len(proposal) THEN [error |-> "none", warned |-> warned, bounds |-> b]
  ELSE LET par == proposal[k][1]
           val == proposal[k][2]
       IN  IF b[par] = NoBound
           THEN CheckLoop(b, proposal, k + 1, warned \cup {par})
           ELSE IF ~(b[par][1] <= val /\ val <= b[par][2])
           THEN [error |-> "ValueError", warned |-> warned, bounds |-> b]
           ELSE CheckLoop(b, proposal, k + 1, warned)

\* ------------------------------------------------------------------- Init
Init ==
  /\ defined = ImportedState.defined
  /\ repr_slot = ImportedState.repr_slot
  /\ repr_prop = ImportedState.repr_prop
  /\ unlocked = ImportedState.unlocked
  /\ classes = ImportedState.classes
  /\ enabled = TRUE
  /\ phase = [i \in Insts |-> "free"]
  /\ itype = [i \in Insts |-> ""]
  /\ attrs = [i \in Insts |-> [f \in Fields |-> 0]]
  /\ locked = [i \in Insts |-> FALSE]
  /\ lock_id = [i \in Insts |-> NoId]
  /\ cached_repr = [i \in Insts |-> NoRepr]
  /\ cached_hash = [i \in Insts |-> NoHash]
  /\ stale = [i \in Insts |-> {}]
  /\ dirty = [i \in Insts |-> FALSE]
  /\ stack = [th \in Threads |-> <<>>]
  /\ exc = [th \in Threads |-> "none"]
  /\ pc = [th \in Threads |-> Idle]
  /\ wrapper = NoWrapper
  /\ emulators = [n \in EmuNames |-> NoEntry]
  /\ loads = [n \in EmuNames |-> 0]
  /\ streak = [n \in EmuNames |-> NoStreak]
  /\ toggle = [th \in Threads |-> NoToggle]
  /\ ingredients = [s \in Slots |-> NoIngredient]
  /\ stored_bounds = NoBoundsObject
  /\ checked = NoCall

\* ---------------------------------------------------------------- actions
\* A class statement for a subclass of CCLObject: __init_subclass__.
DefineClass(th, cl) ==
  /\ Running(th)
  /\ cl \in UserClasses \ defined
  /\ ClassDef[cl].parent \in defined
  /\ LET st == InitSubclass(cl, ClassState(defined, repr_slot, repr_prop, unlocked, classes))
     IN  /\ defined' = st.defined
         /\ repr_slot' = st.repr_slot
         /\ repr_prop' = st.repr_prop
         /\ unlocked' = st.unlocked
         /\ classes' = st.classes
  /\ UNCHANGED <<enabled, instvars, lockvars, cachevars, stack, exc, auxvars, emuvars, libvars>>

\* cl(...): CCLObject.__new__, then the __init__ the lookup finds.  When it
\* is a wrapped __init__ the call enters its scope and the body follows;
\* otherwise it is object.__init__ and the instance is returned at once.
Construct(th, cl, i) ==
  /\ Running(th)
  /\ cl \in defined
  /\ i = NewInst
  /\ LET o == MethodOwner(cl, "__init__")
     IN  /\ itype' = [itype EXCEPT ![i] = cl]
         /\ attrs' = [attrs EXCEPT ![i] = [f \in Fields |-> 0]]
         /\ cached_repr' = [cached_repr EXCEPT ![i] = NoRepr]
         /\ cached_hash' = [cached_hash EXCEPT ![i] = NoHash]
         /\ stale' = [stale EXCEPT ![i] = {}]
         /\ dirty' = [dirty EXCEPT ![i] = FALSE]
         /\ IF o = "object"
            THEN /\ phase' = [phase EXCEPT ![i] = "live"]
                 /\ locked' = [locked EXCEPT ![i] = ObjectLock.locked]
                 /\ lock_id' = [lock_id EXCEPT ![i] = ObjectLock.lock_id]
                 /\ UNCHANGED stack
            ELSE /\ phase' = [phase EXCEPT ![i] = "init"]
                 /\ Depth(th) < MaxDepth
                 /\ LET l == Enter(ObjectLock, FreshId)
                    IN  /\ locked' = [locked EXCEPT ![i] = l.locked]
                        /\ lock_id' = [lock_id EXCEPT ![i] = l.lock_id]
                 /\ stack' = [stack EXCEPT ![th] = Append(@, Frame(i, FreshId, FALSE, "__init__", TRUE, o))]
  /\ UNCHANGED <<clsvars, fancyvars, exc, auxvars, emuvars, libvars>>

\* super().__init__(...) inside the body of a wrapped __init__: the parent's
\* wrapped __init__ opens a nested scope on the same instance.
SuperInit(th) ==
  /\ Running(th)
  /\ Depth(th) > 0
  /\ Top(th).cls # ""
  /\ LET o == MethodOwner(ClassDef[Top(th).cls].parent, "__init__")
     IN  /\ o # "object"
         /\ Open(th, Top(th).inst, FALSE, "__init__", FALSE, o)
  /\ UNCHANGED <<clsvars, fancyvars, instvars, cachevars, exc, auxvars, emuvars, libvars>>

\* x.f = v
SetAttr(th, i, f, v) ==
  /\ Running(th)
  /\ Accessible(th, i)
  /\ IF SetattrRaises(i)
     THEN /\ exc' = [exc EXCEPT ![th] = "AttributeError"]
          /\ UNCHANGED <<attrs, stale, dirty>>
     ELSE /\ attrs' = [attrs EXCEPT ![i][f] = v]
          /\ dirty' = [dirty EXCEPT ![i] =
                @ \/ (Participates(itype[i], f) /\ cached_repr[i] # NoRepr)]
          /\ stale' = [stale EXCEPT ![i] =
                IF /\ \E k \in 1..Len(stack[th]) : stack[th][k].inst = i /\ stack[th][k].mutate
                   /\ Participates(itype[i], f)
                THEN @ \cup Present(i) ELSE @]
          /\ UNCHANGED exc
  /\ UNCHANGED <<clsvars, fancyvars, phase, itype, lockvars, cached_repr, cached_hash, stack, auxvars, emuvars, libvars>>

\* A with statement whose UnlockInstance rejects a target that is not a
\* CCLObject.
EnterWithCCLObjectOnly(th, i, m) ==
  /\ Running(th)
  /\ CheckInstance(i) => Accessible(th, i)
  /\ IF CheckInstance(i)
     THEN Open(th, i, m, "with", FALSE, "") /\ UNCHANGED exc
     ELSE exc' = [exc EXCEPT ![th] = "TypeError"] /\ UNCHANGED <<lockvars, stack>>
  /\ UNCHANGED <<clsvars, fancyvars, instvars, cachevars, auxvars, emuvars, libvars>>

\* with UnlockInstance(x, mutate=m): where x is an instance or Foreign.
EnterWith(th, i, m) ==
  /\ Running(th)
  /\ CheckInstance(i) => Accessible(th, i)
  /\ Open(th, i, m, "with", FALSE, "")
  /\ UNCHANGED <<clsvars, fancyvars, instvars, cachevars, exc, auxvars, emuvars, libvars>>

\* The mutation entry point with every class wrapping the method its lookup
\* finds, CCLObject.update_parameters included.
UpdateParametersWrapsInherited(th, i) ==
  /\ Running(th)
  /\ Accessible(th, i)
  /\ Open(th, i, TRUE, "update_parameters", FALSE, "")
  /\ UNCHANGED <<clsvars, fancyvars, instvars, cachevars, exc, auxvars, emuvars, libvars>>

\* x.update_parameters(...): the wrapped method of the class that defines
\* it, or CCLObject.update_parameters, which raises NotImplementedError.
UpdateParameters(th, i) ==
  /\ Running(th)
  /\ Accessible(th, i)
  /\ IF MethodOwner(itype[i], "update_parameters") = "object"
     THEN /\ exc' = [exc EXCEPT ![th] = "NotImplementedError"]
          /\ UNCHANGED <<lockvars, stack>>
     ELSE /\ Open(th, i, TRUE, "update_parameters", FALSE, "")
          /\ UNCHANGED exc
  /\ UNCHANGED <<clsvars, fancyvars, instvars, cachevars, auxvars, emuvars, libvars>>

\* The body of the innermost scope returns: __exit__(None, None, None).
Return(th) ==
  /\ Running(th)
  /\ Depth(th) > 0
  /\ Close(th)
  /\ phase' = IF Top(th).ctor THEN [phase EXCEPT ![Top(th).inst] = "live"] ELSE phase
  /\ UNCHANGED <<clsvars, fancyvars, itype, attrs, exc, auxvars, emuvars, libvars>>

\* The body of the innermost scope raises an error of its own.
Raise(th) ==
  /\ Running(th)
  /\ Depth(th) > 0
  /\ exc' = [exc EXCEPT ![th] = "Error"]
  /\ UNCHANGED <<clsvars, fancyvars, instvars, lockvars, cachevars, stack, auxvars, emuvars, libvars>>

\* An exit on an exception that restores the attributes the instance had
\* at construction.
UnwindRollsBack(th) ==
  /\ ~Running(th)
  /\ Depth(th) > 0
  /\ Close(th)
  /\ CheckInstance(Top(th).inst)
  /\ attrs' = [attrs EXCEPT ![Top(th).inst] = [f \in Fields |-> 0]]
  /\ IF Top(th).ctor
     THEN /\ phase' = [phase EXCEPT ![Top(th).inst] = "free"]
          /\ itype' = [itype EXCEPT ![Top(th).inst] = ""]
     ELSE UNCHANGED <<phase, itype>>
  /\ UNCHANGED <<clsvars, fancyvars, exc, auxvars, emuvars, libvars>>

\* A propagating exception leaves the innermost scope: __exit__ runs and
\* returns None, so the exception goes on.  An instance whose constructor
\* fails is never returned.
Unwind(th) ==
  /\ ~Running(th)
  /\ Depth(th) > 0
  /\ Close(th)
  /\ IF Top(th).ctor
     THEN /\ phase' = [phase EXCEPT ![Top(th).inst] = "free"]
          /\ itype' = [itype EXCEPT ![Top(th).inst] = ""]
          /\ attrs' = [attrs EXCEPT ![Top(th).inst] = [f \in Fields |-> 0]]
     ELSE UNCHANGED instvars
  /\ UNCHANGED <<clsvars, fancyvars, exc, auxvars, emuvars, libvars>>

\* The propagating exception is handled (try / except around the call).
Catch(th) ==
  /\ ~Running(th)
  /\ exc' = [exc EXCEPT ![th] = "none"]
  /\ UNCHANGED <<clsvars, fancyvars, instvars, lockvars, cachevars, stack, auxvars, emuvars, libvars>>

\* repr(x)
ReadRepr(th, i) ==
  /\ Running(th)
  /\ Accessible(th, i)
  /\ cached_repr' = [cached_repr EXCEPT ![i] = ReprCacheAfter(i)]
  /\ UNCHANGED <<clsvars, fancyvars, instvars, lockvars, cached_hash, stale, dirty, stack, exc, auxvars, emuvars, libvars>>

\* hash(x)
ReadHash(th, i) ==
  /\ Running(th)
  /\ Accessible(th, i)
  /\ cached_hash' = [cached_hash EXCEPT ![i] = Hash(i)]
  /\ cached_repr' = [cached_repr EXCEPT ![i] =
                       IF cached_hash[i] = NoHash THEN ReprCacheAfter(i) ELSE @]
  /\ UNCHANGED <<clsvars, fancyvars, instvars, lockvars, stale, dirty, stack, exc, auxvars, emuvars, libvars>>

\* x == y
Equals(th, x, y) ==
  /\ Running(th)
  /\ Accessible(th, x)
  /\ Accessible(th, y)
  /\ cached_repr' = IF itype[x] = itype[y] /\ EqAttrs(itype[x]) = NoAttrs
                    THEN [cached_repr EXCEPT ![x] = ReprCacheAfter(x),
                                             ![y] = ReprCacheAfter(y)]
                    ELSE cached_repr
  /\ UNCHANGED <<clsvars, fancyvars, instvars, lockvars, cached_hash, stale, dirty, stack, exc, auxvars, emuvars, libvars>>

\* FancyRepr.disable()
Disable(th) ==
  /\ Running(th)
  /\ repr_slot' = [c \in ClassNames |-> IF c \in classes THEN "object" ELSE repr_slot[c]]
  /\ enabled' = FALSE
  /\ UNCHANGED <<defined, repr_prop, unlocked, classes, instvars, lockvars, cachevars, stack, exc, auxvars, emuvars, libvars>>

\* enable() that sets the flag and rebinds no class.
EnableFlagOnly(th) ==
  /\ Running(th)
  /\ enabled' = TRUE
  /\ UNCHANGED <<clsvars, classes, instvars, lockvars, cachevars, stack, exc, auxvars, emuvars, libvars>>

\* FancyRepr.enable()
Enable(th) ==
  /\ Running(th)
  /\ repr_slot' = [c \in ClassNames |-> IF c \in classes THEN "ccl" ELSE repr_slot[c]]
  /\ repr_prop' = [c \in ClassNames |-> IF c \in classes THEN "custom" ELSE repr_prop[c]]
  /\ enabled' = TRUE
  /\ UNCHANGED <<defined, unlocked, classes, instvars, lockvars, cachevars, stack, exc, auxvars, emuvars, libvars>>

\* @unlock_instance(name=name, mutate=m) on a function of signature sig.
Decorate(th, sig, name, m) ==
  /\ Running(th)
  /\ LET r == UnlockInstanceDecorator(sig, name, m)
     IN  IF r.error # "none"
         THEN /\ exc' = [exc EXCEPT ![th] = r.error]
              /\ UNCHANGED wrapper
         ELSE /\ wrapper' = r.wrapper
              /\ UNCHANGED exc
  /\ UNCHANGED <<clsvars, fancyvars, instvars, lockvars, cachevars, stack, pc, emuvars, libvars>>

\* The CCLObject instances among the arguments of a call are ones the
\* caller can reach.
Passable(th, call) ==
  /\ \A k \in 1..Len(call.pos) : CheckInstance(call.pos[k]) => Accessible(th, call.pos[k])
  /\ \A n \in DOMAIN call.kw : CheckInstance(call.kw[n]) => Accessible(th, call.kw[n])

\* A wrapper that takes its first positional argument as the target and
\* does not bind the arguments to the signature.
CallWrappedUnbound(th, call) ==
  /\ Running(th)
  /\ wrapper # NoWrapper
  /\ Passable(th, call)
  /\ Open(th, IF Len(call.pos) > 0 THEN call.pos[1] ELSE Foreign,
          wrapper.mutate, "call", FALSE, "")
  /\ UNCHANGED <<clsvars, fancyvars, instvars, cachevars, exc, auxvars, emuvars, libvars>>

\* wrapper(*args, **kwargs): bind the arguments, then run the function in a
\* scope on the argument bound to the designated parameter.
CallWrapped(th, call) ==
  /\ Running(th)
  /\ wrapper # NoWrapper
  /\ Passable(th, call)
  /\ IF ~Binds(wrapper.sig, call)
     THEN /\ exc' = [exc EXCEPT ![th] = "TypeError"]
          /\ UNCHANGED <<lockvars, stack>>
     ELSE LET arguments == BoundArguments(wrapper.sig, call)
          IN  IF wrapper.name \notin DOMAIN arguments
              THEN /\ exc' = [exc EXCEPT ![th] = "KeyError"]
                   /\ UNCHANGED <<lockvars, stack>>
              ELSE /\ Open(th, arguments[wrapper.name], wrapper.mutate, "call", FALSE, "")
                   /\ UNCHANGED exc
  /\ UNCHANGED <<clsvars, fancyvars, instvars, cachevars, auxvars, emuvars, libvars>>

Controls == {"enable", "disable"}

\* c._fancy_repr.enable() / c._fancy_repr.disable() for a class c.
ControlViaClass(th, c, op) ==
  /\ c \in defined
  /\ IF GetFancyRepr(c) = "AttributeError"
     THEN /\ Running(th)
          /\ exc' = [exc EXCEPT ![th] = "AttributeError"]
          /\ UNCHANGED <<clsvars, fancyvars, instvars, lockvars, cachevars, stack, auxvars, emuvars, libvars>>
     ELSE IF op = "enable" THEN Enable(th) ELSE Disable(th)

\* x._fancy_repr.enable() / x._fancy_repr.disable() for an instance x: the
\* instance has no such attribute of its own, the lookup goes to its class.
ControlViaInstance(th, i, op) ==
  /\ Accessible(th, i)
  /\ ControlViaClass(th, itype[i], op)

\* c() for an emulator class c whose instance has the configuration cfg:
\* Emulator.__init__.  A _load that is not overridden raises
\* NotImplementedError, after the entry has been created.
NewEmulator(th, c, cfg) ==
  LET name == EmuDef[c].name
      e1 == IF HasEntry(emulators, name) THEN emulators ELSE SetEntry(emulators, name)
  IN  /\ Running(th)
      /\ IF HasModel(e1, name, cfg)
         THEN /\ emulators' = IF Reload(e1, name, cfg) \/ ~HasConfig(e1, name)
                              THEN SetConfig(e1, name, cfg) ELSE e1
              /\ streak' = [streak EXCEPT ![name] = Streak(@, cfg, 0)]
              /\ UNCHANGED <<loads, exc>>
         ELSE /\ loads[name] < MaxLoads
              /\ loads' = [loads EXCEPT ![name] = @ + 1]
              /\ IF ~EmuDef[c].load
                 THEN /\ emulators' = e1
                      /\ exc' = [exc EXCEPT ![th] = "NotImplementedError"]
                      /\ UNCHANGED streak
                 ELSE LET e2 == SetModel(e1, name, Load(c, cfg))
                      IN  /\ emulators' = IF Reload(e1, name, cfg) \/ ~HasConfig(e2, name)
                                           THEN SetConfig(e2, name, cfg) ELSE e2
                          /\ streak' = [streak EXCEPT ![name] = Streak(@, cfg, 1)]
                          /\ UNCHANGED exc
      /\ UNCHANGED <<clsvars, fancyvars, instvars, lockvars, cachevars, stack, auxvars, libvars>>

\* emu._set_bounds(bounds) on an instance of class c (one was constructed:
\* the entry of its name holds a model).
SetBounds(th, c, bounds) ==
  /\ Running(th)
  /\ emulators[EmuDef[c].name].model # NoModel
  /\ emulators' = SetBoundsEntry(emulators, EmuDef[c].name, bounds)
  /\ UNCHANGED <<clsvars, fancyvars, instvars, lockvars, cachevars, stack, exc, auxvars, loads, streak, libvars>>

\* FancyRepr.enable() / FancyRepr.disable() is called: the loop starts.
StartToggle(th, op) ==
  /\ Running(th)
  /\ toggle[th] = NoToggle
  /\ toggle' = [toggle EXCEPT ![th] = [op |-> op, k |-> 1]]
  /\ UNCHANGED <<clsvars, fancyvars, instvars, lockvars, cachevars, stack, exc, auxvars, emuvars, ingredients, boundvars>>

\* enable(), one statement: bind_and_replace for the next class (its _repr
\* and its __repr__; disable() never assigns _repr), or, after the loop,
\* cls._enabled = True.
EnableStep(th) ==
  /\ toggle[th].op = "enable"
  /\ IF toggle[th].k <= Len(ClassesInOrder)
     THEN LET st == BindAndReplace(ClassesInOrder[toggle[th].k],
                      ClassState(defined, repr_slot, repr_prop, unlocked, classes))
          IN  /\ repr_slot' = st.repr_slot
              /\ repr_prop' = st.repr_prop
              /\ toggle' = [toggle EXCEPT ![th].k = @ + 1]
              /\ UNCHANGED enabled
     ELSE /\ enabled' = TRUE
          /\ toggle' = [toggle EXCEPT ![th] = NoToggle]
          /\ UNCHANGED <<repr_slot, repr_prop>>
  /\ UNCHANGED <<defined, unlocked, classes, instvars, lockvars, cachevars, stack, exc, auxvars, emuvars, ingredients, boundvars>>

\* disable(), one statement: cl.__repr__ = object.__repr__ for the next
\* class, or, after the loop, cls._enabled = False.
DisableStep(th) ==
  /\ toggle[th].op = "disable"
  /\ IF toggle[th].k <= Len(ClassesInOrder)
     THEN /\ repr_slot' = [repr_slot EXCEPT ![ClassesInOrder[toggle[th].k]] = "object"]
          /\ toggle' = [toggle EXCEPT ![th].k = @ + 1]
          /\ UNCHANGED enabled
     ELSE /\ enabled' = FALSE
          /\ toggle' = [toggle EXCEPT ![th] = NoToggle]
          /\ UNCHANGED repr_slot
  /\ UNCHANGED <<defined, repr_prop, unlocked, classes, instvars, lockvars, cachevars, stack, exc, auxvars, emuvars, ingredients, boundvars>>

\* x._object_lock.lock() as one call.
DirectLock(th, i) ==
  /\ Running(th)
  /\ Accessible(th, i)
  /\ LET l == Lock([locked |-> locked[i], lock_id |-> lock_id[i]])
     IN  /\ locked' = [locked EXCEPT ![i] = l.locked]
         /\ lock_id' = [lock_id EXCEPT ![i] = l.lock_id]
  /\ UNCHANGED <<clsvars, fancyvars, instvars, cachevars, stack, exc, auxvars, emuvars, libvars>>

\* x._object_lock.unlock(manager_id=id) as one call; id = NoId is unlock().
DirectUnlock(th, i, id) ==
  /\ Running(th)
  /\ Accessible(th, i)
  /\ LET l == Unlock([locked |-> locked[i], lock_id |-> lock_id[i]], id)
     IN  /\ locked' = [locked EXCEPT ![i] = l.locked]
         /\ lock_id' = [lock_id EXCEPT ![i] = l.lock_id]
  /\ UNCHANGED <<clsvars, fancyvars, instvars, cachevars, stack, exc, auxvars, emuvars, libvars>>

\* cls(mass_def=md, ...) for the object s: what its __init__ made of it.
NewIngredient(s, c, md, strict, relaxed, vmax) ==
  /\ IngrArgs(c, strict, relaxed, vmax)
  /\ ingredients' = [ingredients EXCEPT ![s] = IngrInit(c, md, strict, relaxed, vmax)]
  /\ UNCHANGED <<clsvars, fancyvars, instvars, lockvars, cachevars, stack, exc, auxvars, emuvars, toggle, boundvars>>

\* Bounds(b): the object exists when __init__ has returned.
NewBounds(b) ==
  /\ checked' = [NoCall EXCEPT !.op = "init", !.arg = b, !.error = InitLoop(b, 1)]
  /\ stored_bounds' = IF InitLoop(b, 1) = "none"
                      THEN [made |-> TRUE, bounds |-> b] ELSE stored_bounds
  /\ UNCHANGED <<clsvars, fancyvars, instvars, lockvars, cachevars, stack, exc, auxvars, emuvars, toggle, ingredients>>

\* self.check_bounds(proposal) on the Bounds object.
CheckBounds(proposal) ==
  /\ stored_bounds.made
  /\ LET r == CheckLoop(stored_bounds.bounds, proposal, 1, {})
     IN  /\ checked' = [NoCall EXCEPT !.op = "check", !.proposal = proposal,
                                      !.error = r.error, !.warned = r.warned]
         /\ stored_bounds' = [stored_bounds EXCEPT !.bounds = r.bounds]
  /\ UNCHANGED <<clsvars, fancyvars, instvars, lockvars, cachevars, stack, exc, auxvars, emuvars, toggle, ingredients>>

\* One thread, one instance: the whole protocol.
Next ==
  \/ \E cl \in UserClasses : DefineClass("main", cl)
  \/ \E cl \in SoloClasses, i \in Solo : Construct("main", cl, i)
  \/ SuperInit("main")
  \/ \E i \in Solo, f \in Fields, v \in Values : SetAttr("main", i, f, v)
  \/ \E i \in Solo, m \in BOOLEAN : EnterWith("main", i, m)
  \/ \E i \in Solo : UpdateParameters("main", i)
  \/ Return("main")
  \/ Raise("main")
  \/ Unwind("main")
  \/ Catch("main")
  \/ \E i \in Solo : ReadRepr("main", i)
  \/ \E i \in Solo : ReadHash("main", i)
  \/ \E x \in Solo, y \in Solo : Equals("main", x, y)
  \/ Disable("main")
  \/ Enable("main")

Spec == Init /\ [][Next]_vars

\* One thread, MaxInst instances: they are constructed (their constructors
\* assign the attributes), then read and compared while the registry is
\* toggled.
InitInsts == {i \in Insts : phase[i] = "init"}
LiveInsts == {i \in Insts : phase[i] = "live"}

PairNext ==
  \/ \E cl \in UserClasses : DefineClass("main", cl)
  \/ \E cl \in Concrete, i \in Insts : Construct("main", cl, i)
  \/ \E i \in InitInsts, f \in Fields, v \in Values : SetAttr("main", i, f, v)
  \/ Return("main")
  \/ \E i \in LiveInsts : ReadRepr("main", i)
  \/ \E i \in LiveInsts : ReadHash("main", i)
  \/ \E x \in LiveInsts, y \in LiveInsts : Equals("main", x, y)
  \/ Disable("main")
  \/ Enable("main")

PairSpec == Init /\ [][PairNext]_vars

\* ------------------------------------------------------- statement steps
\* __enter__, __exit__ and the methods of ObjectLock taken one statement at
\* a time, for threads that share an instance.  A thread's pc holds the
\* statement it is at, the instance whose lock it works on, the manager id
\* it passes and whether it came from a scope.  self.thread_lock belongs to
\* the UnlockInstance object, which no other thread has: acquiring it never
\* blocks and excludes nobody, so it has no step.
At(th, l) == pc[th].at = l
ReadyThreads == {th \in Threads : pc[th] = Idle}

\* The top frame leaves the stack; the scope of a constructor call returns
\* the instance, or gives it up when an exception is propagating.
Pop(th) ==
  /\ stack' = [stack EXCEPT ![th] = SubSeq(@, 1, Len(@) - 1)]
  /\ IF ~Top(th).ctor THEN UNCHANGED instvars
     ELSE IF Running(th)
     THEN /\ phase' = [phase EXCEPT ![Top(th).inst] = "live"]
          /\ UNCHANGED <<itype, attrs>>
     ELSE /\ phase' = [phase EXCEPT ![Top(th).inst] = "free"]
          /\ itype' = [itype EXCEPT ![Top(th).inst] = ""]
          /\ attrs' = [attrs EXCEPT ![Top(th).inst] = [f \in Fields |-> 0]]

\* with UnlockInstance(x, mutate=m): the object is created and __enter__ is
\* called.
NewScope(th, i, m) ==
  /\ Running(th)
  /\ At(th, "run")
  /\ Accessible(th, i)
  /\ Depth(th) < MaxDepth
  /\ stack' = [stack EXCEPT ![th] = Append(@, Frame(i, FreshId, m, "with", FALSE, ""))]
  /\ pc' = [pc EXCEPT ![th] = [at |-> "enter", inst |-> i, id |-> FreshId, scope |-> TRUE]]
  /\ UNCHANGED <<clsvars, fancyvars, instvars, lockvars, cachevars, exc, wrapper, emuvars, libvars>>

\* __enter__: if self.object_lock.active: return
EnterCheck(th) ==
  /\ At(th, "enter")
  /\ pc' = [pc EXCEPT ![th] =
              IF Active([locked |-> locked[@.inst], lock_id |-> lock_id[@.inst]])
              THEN Idle ELSE [@ EXCEPT !.at = "unlock"]]
  /\ UNCHANGED <<clsvars, fancyvars, instvars, lockvars, cachevars, stack, exc, wrapper, emuvars, libvars>>

\* ObjectLock.unlock: self._locked = False
UnlockSetLocked(th) ==
  /\ At(th, "unlock")
  /\ locked' = [locked EXCEPT ![pc[th].inst] = FALSE]
  /\ pc' = [pc EXCEPT ![th] = IF @.id # NoId THEN [@ EXCEPT !.at = "unlock_id"] ELSE Idle]
  /\ UNCHANGED <<clsvars, fancyvars, instvars, lock_id, cachevars, stack, exc, wrapper, emuvars, libvars>>

\* ObjectLock.unlock: self._lock_id = manager_id
UnlockSetId(th) ==
  /\ At(th, "unlock_id")
  /\ lock_id' = [lock_id EXCEPT ![pc[th].inst] = pc[th].id]
  /\ pc' = [pc EXCEPT ![th] = Idle]
  /\ UNCHANGED <<clsvars, fancyvars, instvars, locked, cachevars, stack, exc, wrapper, emuvars, libvars>>

\* __exit__ of the innermost scope, on return or on an exception:
\* if self.id != self.object_lock._lock_id: return
ExitCheck(th) ==
  /\ At(th, "run")
  /\ Depth(th) > 0
  /\ CheckInstance(Top(th).inst)
  /\ IF Top(th).id # lock_id[Top(th).inst]
     THEN Pop(th) /\ UNCHANGED pc
     ELSE /\ pc' = [pc EXCEPT ![th] =
                      [at |-> IF Top(th).mutate THEN "delete" ELSE "lock",
                       inst |-> Top(th).inst, id |-> Top(th).id, scope |-> TRUE]]
          /\ UNCHANGED <<instvars, stack>>
  /\ UNCHANGED <<clsvars, fancyvars, lockvars, cachevars, exc, wrapper, emuvars, libvars>>

\* __exit__: the two delattr of a scope with mutate = True.
ExitDelete(th) ==
  /\ At(th, "delete")
  /\ LET i == pc[th].inst
         st == DelCaches(ExitState(i))
     IN  /\ cached_repr' = [cached_repr EXCEPT ![i] = st.repr]
         /\ cached_hash' = [cached_hash EXCEPT ![i] = st.hash]
         /\ stale' = [stale EXCEPT ![i] =
               @ \ ((IF st.repr = NoRepr THEN {"_repr"} ELSE {})
                    \cup (IF st.hash = NoHash THEN {"_hash"} ELSE {}))]
         /\ dirty' = [dirty EXCEPT ![i] = @ /\ st.repr # NoRepr]
  /\ pc' = [pc EXCEPT ![th] = [@ EXCEPT !.at = "lock"]]
  /\ UNCHANGED <<clsvars, fancyvars, instvars, lockvars, stack, exc, wrapper, emuvars, libvars>>

\* ObjectLock.lock: self._locked = True
LockSetLocked(th) ==
  /\ At(th, "lock")
  /\ locked' = [locked EXCEPT ![pc[th].inst] = TRUE]
  /\ pc' = [pc EXCEPT ![th] = [@ EXCEPT !.at = "lock_id"]]
  /\ UNCHANGED <<clsvars, fancyvars, instvars, lock_id, cachevars, stack, exc, wrapper, emuvars, libvars>>

\* ObjectLock.lock: self._lock_id = None; a scope's __exit__ then returns.
LockClearId(th) ==
  /\ At(th, "lock_id")
  /\ lock_id' = [lock_id EXCEPT ![pc[th].inst] = NoId]
  /\ pc' = [pc EXCEPT ![th] = Idle]
  /\ IF pc[th].scope THEN Pop(th) ELSE UNCHANGED <<instvars, stack>>
  /\ UNCHANGED <<clsvars, fancyvars, locked, cachevars, exc, wrapper, emuvars, libvars>>

\* x._object_lock.lock() called by user code.
CallLock(th, i) ==
  /\ Running(th)
  /\ At(th, "run")
  /\ Accessible(th, i)
  /\ pc' = [pc EXCEPT ![th] = [at |-> "lock", inst |-> i, id |-> NoId, scope |-> FALSE]]
  /\ UNCHANGED <<clsvars, fancyvars, instvars, lockvars, cachevars, stack, exc, wrapper, emuvars, libvars>>

\* x._object_lock.unlock() called by user code.
CallUnlock(th, i) ==
  /\ Running(th)
  /\ At(th, "run")
  /\ Accessible(th, i)
  /\ pc' = [pc EXCEPT ![th] = [at |-> "unlock", inst |-> i, id |-> NoId, scope |-> FALSE]]
  /\ UNCHANGED <<clsvars, fancyvars, instvars, lockvars, cachevars, stack, exc, wrapper, emuvars, libvars>>

\* Two threads share one instance, which the main thread constructs: they
\* open and leave scopes on it and assign its attribute, the main thread
\* reads its hash, each statement of __enter__, __exit__ and ObjectLock being
\* a step.
ConcNext ==
  \/ \E i \in Solo : Construct("main", "Ishiyama21", i)
  \/ \E th \in ReadyThreads, i \in Solo, v \in Values : SetAttr(th, i, "a", v)
  \/ \E th \in ReadyThreads \cap {"main"}, i \in Solo : ReadHash(th, i)
  \/ \E th \in ReadyThreads : Catch(th)
  \/ \E th \in Threads, i \in Solo, m \in BOOLEAN : NewScope(th, i, m)
  \/ \E th \in Threads : EnterCheck(th)
  \/ \E th \in Threads : UnlockSetLocked(th)
  \/ \E th \in Threads : UnlockSetId(th)
  \/ \E th \in Threads : ExitCheck(th)
  \/ \E th \in Threads : ExitDelete(th)
  \/ \E th \in Threads : LockSetLocked(th)
  \/ \E th \in Threads : LockClearId(th)

ConcSpec == Init /\ [][ConcNext]_vars

\* Two threads work on the lock of one instance: scope entries and exits
\* and direct calls of the lock's methods, statement by statement.
LockNext ==
  \/ \E i \in Solo : Construct("main", "Ishiyama21", i)
  \/ \E th \in Threads, i \in Solo, m \in BOOLEAN : NewScope(th, i, m)
  \/ \E th \in Threads : EnterCheck(th)
  \/ \E th \in Threads : UnlockSetLocked(th)
  \/ \E th \in Threads : UnlockSetId(th)
  \/ \E th \in Threads : ExitCheck(th)
  \/ \E th \in Threads : ExitDelete(th)
  \/ \E th \in Threads : LockSetLocked(th)
  \/ \E th \in Threads : LockClearId(th)
  \/ \E th \in Threads, i \in Solo : CallLock(th, i)
  \/ \E th \in Threads, i \in Solo : CallUnlock(th, i)

LockSpec == Init /\ [][LockNext]_vars

\* One thread, one instance of a class with a wrapped __init__: functions
\* are decorated and called, scopes are opened on the instance and on
\* values that are not CCLObjects.
CallNext ==
  \/ \E i \in Solo : Construct("main", "Ishiyama21", i)
  \/ \E i \in Solo, v \in Values : SetAttr("main", i, "a", v)
  \/ \E i \in Solo \cup {Foreign}, m \in BOOLEAN : EnterWith("main", i, m)
  \/ \E sig \in Signatures, name \in DecoNames, m \in BOOLEAN : Decorate("main", sig, name, m)
  \/ \E call \in Calls : CallWrapped("main", call)
  \/ Return("main")
  \/ Unwind("main")
  \/ Catch("main")
  \/ \E i \in Solo : ReadHash("main", i)

CallSpec == Init /\ [][CallNext]_vars

\* One thread, MaxInst instances: the registry is switched through
\* FancyRepr, through classes and through instances, and the instances are
\* read.
RegistryNext ==
  \/ \E cl \in UserClasses : DefineClass("main", cl)
  \/ \E cl \in Concrete, i \in Insts : Construct("main", cl, i)
  \/ Return("main")
  \/ \E i \in LiveInsts : ReadRepr("main", i)
  \/ \E i \in LiveInsts : ReadHash("main", i)
  \/ Disable("main")
  \/ Enable("main")
  \/ \E c \in ClassNames, op \in Controls : ControlViaClass("main", c, op)
  \/ \E i \in LiveInsts, op \in Controls : ControlViaInstance("main", i, op)
  \/ Catch("main")

RegistrySpec == Init /\ [][RegistryNext]_vars

\* Emulators are constructed one after the other, with any class and
\* configuration, and bounds are stored.
EmuNext ==
  \/ \E c \in EmuClasses, cfg \in Configs : NewEmulator("main", c, cfg)
  \/ \E c \in EmuClasses, b \in EmuBounds : SetBounds("main", c, b)
  \/ Catch("main")

EmuSpec == Init /\ [][EmuNext]_vars

\* Two threads call enable() and disable(), statement by statement; the main
\* thread defines classes, constructs instances and reads them while no call
\* is running and the registry is enabled.
NoToggleRuns == \A th \in Threads : toggle[th] = NoToggle

ToggleNext ==
  \/ \E cl \in UserClasses : NoToggleRuns /\ enabled /\ DefineClass("main", cl)
  \/ \E cl \in {"Profile", "MyAutoType"}, i \in Solo :
        NoToggleRuns /\ enabled /\ Construct("main", cl, i)
  \/ Return("main")
  \/ \E i \in LiveInsts : ReadRepr("main", i)
  \/ \E th \in Threads, op \in Controls : StartToggle(th, op)
  \/ \E th \in Threads : EnableStep(th)
  \/ \E th \in Threads : DisableStep(th)

ToggleSpec == Init /\ [][ToggleNext]_vars

\* One thread, one instance: its lock is set and released by direct calls of
\* lock() and unlock(), with and without a manager id, between and inside
\* scopes, and the instance is assigned.
ManagerIds == {NoId} \cup ScopeIds

ObjLockNext ==
  \/ \E cl \in {"CCLObject", "Ishiyama21"}, i \in Solo : Construct("main", cl, i)
  \/ \E i \in Solo, v \in Values : SetAttr("main", i, "a", v)
  \/ \E i \in Solo, m \in BOOLEAN : EnterWith("main", i, m)
  \/ Return("main")
  \/ Catch("main")
  \/ \E i \in Solo : DirectLock("main", i)
  \/ \E i \in Solo, id \in ManagerIds : DirectUnlock("main", i, id)

ObjLockSpec == Init /\ [][ObjLockNext]_vars

\* Halo-model ingredients are constructed with every mass definition and
\* every value of their flags.
HaloNext ==
  \E s \in Slots, c \in IngrClasses, md \in MassDefs,
     strict \in BOOLEAN, relaxed \in BOOLEAN, vmax \in BOOLEAN :
    NewIngredient(s, c, md, strict, relaxed, vmax)

HaloSpec == Init /\ [][HaloNext]_vars

\* Bounds objects are constructed with every dict of bounds, and every
\* proposal is checked against them.
BoundsNext ==
  \/ \E b \in BoundsDicts : NewBounds(b)
  \/ \E proposal \in Proposals : CheckBounds(proposal)

BoundsSpec == Init /\ [][BoundsNext]_vars

\* ================================================================= claims
Live(i) == phase[i] = "live"
Pushes(th) == Len(stack'[th]) = Len(stack[th]) + 1
Pops(th) == Len(stack'[th]) = Len(stack[th]) - 1
New(th) == stack'[th][Len(stack'[th])]
Owner(fr) == CheckInstance(fr.inst) /\ fr.id = lock_id[fr.inst]
CachesCleared(i) == cached_repr'[i] = NoRepr /\ cached_hash'[i] = NoHash

\* C1: every construction that succeeds returns a locked instance: in the
\* step in which an instance becomes live (a constructor call returns it),
\* its lock is locked and holds no scope id.  Checked under Spec.
ConstructionReturnsLocked ==
  [][\A i \in Insts :
       (~Live(i) /\ phase'[i] = "live") => (locked'[i] /\ lock_id'[i] = NoId)]_vars

\* C2: an assignment x.f = v to a locked instance raises AttributeError and
\* changes no attribute, neither the lock nor the cached representation and
\* hash.
LockedSetattrFails ==
  [][\A i \in Insts, f \in Fields, v \in Values :
       (locked[i] /\ SetAttr("main", i, f, v))
         => /\ exc'["main"] = "AttributeError"
            /\ UNCHANGED <<attrs, locked, lock_id, cached_repr, cached_hash>>]_vars

\* C2 witness: an assignment to a live, locked instance has just failed.
LockedSetattrFailed ==
  /\ exc["main"] = "AttributeError"
  /\ \E i \in Insts : Live(i) /\ locked[i] /\ attrs[i] # [f \in Fields |-> 0]

\* What repr(x) returns when nothing is cached.
FreshRepr(i) == IF ReprSlot(itype[i]) = "ccl" THEN ComputeRepr(i) ELSE ObjectRepr(i)

\* The innermost scope of the main thread is the scope of a call of the
\* wrapped update_parameters that unlocked its instance.
InUpdate(i) ==
  /\ Depth("main") > 0
  /\ Top("main").kind = "update_parameters"
  /\ Top("main").inst = i
  /\ Owner(Top("main"))

\* C3: a call of the wrapped update_parameters on a locked instance: the
\* assignments of its body succeed; when it returns, the instance is locked
\* with no active scope, the cached representation and hash are gone and the
\* next repr(x) is computed from the new attribute values.
UpdateParametersCommits ==
  [][\A i \in Insts :
       /\ \A f \in Fields, v \in Values :
            (InUpdate(i) /\ SetAttr("main", i, f, v))
              => (attrs'[i][f] = v /\ exc'["main"] = "none")
       /\ (InUpdate(i) /\ Running("main") /\ Pops("main"))
              => /\ locked'[i] /\ lock_id'[i] = NoId
                 /\ CachesCleared(i)
                 /\ Repr(i)' = FreshRepr(i)']_vars

\* C4: no stale cache survives a committed mutation: when an instance is
\* locked, it holds no cached representation or hash that was computed
\* before an attribute of its representation was assigned inside a scope
\* with mutate = True.
NoStaleCacheAfterMutation ==
  \A i \in Insts : (Live(i) /\ locked[i]) => stale[i] = {}

\* C5: scope reentrancy in one thread.  While a scope is open on an
\* instance, the instance is unlocked; entering a scope on an instance that
\* has an active scope changes neither the lock flag nor the scope id;
\* leaving a scope that is not the active one changes neither; the step that
\* locks an instance is the exit of the outermost scope on it.
ScopeReentrancy ==
  /\ [](\A k \in 1..Depth("main") : ~locked[stack["main"][k].inst])
  /\ [][/\ (Pushes("main") /\ lock_id[New("main").inst] # NoId)
             => UNCHANGED <<locked, lock_id>>
        /\ (Pops("main") /\ ~Owner(Top("main")))
             => UNCHANGED <<locked, lock_id>>
        /\ \A i \in Insts :
             (Pops("main") /\ Top("main").inst = i /\ ~locked[i] /\ locked'[i])
               => \A k \in 1..Len(stack'["main"]) : stack'["main"][k].inst # i]_vars

\* C5 witness: an inner scope has been entered and left inside the scope
\* that unlocked the instance, which is still open and is not a constructor.
NestedScopeOpen ==
  /\ Depth("main") = 2
  /\ stack["main"][1].inst = stack["main"][2].inst
  /\ stack["main"][1].kind # "__init__"
  /\ Owner(stack["main"][1])
  /\ ~locked[stack["main"][1].inst]

\* C6: when the body of a scope raises, __exit__ still runs: the scope that
\* unlocked the instance leaves it locked with no active scope, the cached
\* representation and hash are cleared if its mutate flag is set, and the
\* same exception goes on to the caller.
RaisingBodyStillExits ==
  [][(~Running("main") /\ Pops("main") /\ Owner(Top("main")))
       => /\ locked'[Top("main").inst]
          /\ lock_id'[Top("main").inst] = NoId
          /\ Top("main").mutate => CachesCleared(Top("main").inst)
          /\ exc'["main"] = exc["main"]]_vars

\* C7: for two instances x, y of the same class that has __repr_attrs__,
\* x == y, repr(x) == repr(y) and hash(x) == hash(y) are equivalent.  Stated
\* for the states in which the registry is enabled (where repr is the custom
\* representation); checked under PairSpec.
EqReprHashCoincide ==
  enabled =>
    \A x \in Insts, y \in Insts :
      (Live(x) /\ Live(y) /\ itype[x] = itype[y] /\ ReprAttrs(itype[x]) # NoAttrs)
        => /\ Eq(x, y) <=> (Repr(x) = Repr(y))
           /\ (Repr(x) = Repr(y)) <=> (Hash(x) = Hash(y))

\* C8: two instances of different classes are never equal, in either operand
\* order, whatever their attributes and representations.  Checked under
\* PairSpec.
DifferentTypesNeverEqual ==
  \A x \in Insts, y \in Insts :
    (Live(x) /\ Live(y) /\ itype[x] # itype[y]) => (~Eq(x, y) /\ ~Eq(y, x))

\* C8 witness: an instance of a class and an instance of its subclass with
\* equal attribute values and equal representations.
SubclassInstanceWithEqualRepr ==
  \E x \in Insts, y \in Insts :
    /\ Live(x) /\ Live(y)
    /\ itype[x] = "Profile" /\ itype[y] = "SubProfile"
    /\ attrs[x] = attrs[y]
    /\ Repr(x) = Repr(y)

\* C9: whenever an instance is locked, hash(x) is the hash of the string
\* that repr(x) returns.
HashMatchesRepr ==
  \A i \in Insts : (Live(i) /\ locked[i]) => Hash(i) = StrHash(Repr(i))

\* C10: while the registry is disabled, repr(x) of every instance of every
\* registered class is object.__repr__(x).
DisabledMeansDefault ==
  ~enabled =>
    \A i \in Insts : (Live(i) /\ itype[i] \in classes) => Repr(i) = ObjectRepr(i)

\* The registered class whose __repr__ the lookup on class c finds, "object"
\* when the lookup ends at a class that is not registered.
Registered(c) ==
  LET o == Resolve(MRO(c), repr_slot, "absent")
  IN  IF o \in classes THEN o ELSE "object"

\* C11: while the registry is enabled (initially, and again after every
\* enable() that follows a disable()), repr(x) of every instance of a
\* registered class is the custom representation of its current attribute
\* values, unless an attribute of the representation was assigned after the
\* value was cached (the cache is then no longer valid).  A value read while
\* the registry was disabled is never returned.
EnableRestoresCustom ==
  enabled =>
    \A i \in Insts :
      (Live(i) /\ Registered(itype[i]) # "object" /\ ~dirty[i])
        => Repr(i) = CustomRepr(Registered(itype[i]), i)

\* C11 witness: the registry is enabled again; the instance holds the
\* representation cached before the disable and the hash that was read
\* while the registry was disabled.
EnabledAgainWithCache ==
  /\ enabled
  /\ \E i \in Insts :
       /\ Live(i) /\ itype[i] = "Profile" /\ ~dirty[i]
       /\ attrs[i]["a"] = 1
       /\ cached_repr[i] # NoRepr
       /\ cached_hash[i] = StrHash(ObjectRepr(i))

\* The attributes listed in __repr_attrs__ have the same values in x and y.
SameListedAttrs(x, y) ==
  \A k \in 1..Len(ReprAttrs(itype[x])) :
    attrs[x][ReprAttrs(itype[x])[k]] = attrs[y][ReprAttrs(itype[x])[k]]

\* C12: two instances of the same class with __repr_attrs__ whose listed
\* attributes have the same values have the same representation, are equal
\* and have the same hash, whatever their other attributes.  Stated for the
\* states in which the registry is enabled; checked under PairSpec.
SameListedAttrsAgree ==
  enabled =>
    \A x \in Insts, y \in Insts :
      (/\ Live(x) /\ Live(y) /\ itype[x] = itype[y]
       /\ ReprAttrs(itype[x]) # NoAttrs /\ SameListedAttrs(x, y))
        => (Repr(x) = Repr(y) /\ Eq(x, y) /\ Hash(x) = Hash(y))

\* Class c defines neither a __repr__ of its own (it has at most the one of
\* CCLAutoreprObject) nor __repr_attrs__.
IdentityType(c) ==
  /\ c \in ClassNames
  /\ \A k \in 1..Len(MRO(c)) : ClassDef[MRO(c)[k]].repr => MRO(c)[k] = "CCLAutoreprObject"
  /\ ReprAttrs(c) = NoAttrs

\* C13: for a class without __repr__ and without __repr_attrs__ the
\* representation is object.__repr__: two distinct instances are not equal
\* and have different representations and different hashes; every instance
\* equals itself.  Checked under PairSpec.
IdentityDefault ==
  \A x \in Insts, y \in Insts :
    (Live(x) /\ Live(y) /\ IdentityType(itype[x]) /\ IdentityType(itype[y]))
      => /\ Repr(x) = ObjectRepr(x)
         /\ Eq(x, x)
         /\ x # y => (~Eq(x, y) /\ Repr(x) # Repr(y) /\ Hash(x) # Hash(y))

\* C13 witness: two instances of the subclass of CCLAutoreprObject that has
\* no attribute list, both with a cached representation and hash.
TwoIdentityInstancesRead ==
  \E x \in Insts, y \in Insts :
    /\ x # y /\ Live(x) /\ Live(y)
    /\ itype[x] = "MyAutoType" /\ itype[y] = "MyAutoType"
    /\ cached_repr[x] # NoRepr /\ cached_repr[y] # NoRepr
    /\ cached_hash[x] # NoHash /\ cached_hash[y] # NoHash

\* C14: update_parameters on an instance whose class (with its bases) defines
\* no update_parameters raises NotImplementedError: no scope is opened and
\* the attributes, the lock and the cached representation and hash of the
\* instance are unchanged.
UpdateParametersUnsupported ==
  [][\A i \in Insts :
       (/\ phase[i] # "free"
        /\ \A k \in 1..Len(MRO(itype[i])) : ~ClassDef[MRO(itype[i])[k]].update
        /\ UpdateParameters("main", i))
         => /\ exc'["main"] = "NotImplementedError"
            /\ UNCHANGED <<stack, attrs, locked, lock_id, cached_repr, cached_hash>>]_vars

\* C14 witness: the call has just failed on a live, locked instance that
\* holds a cached representation and hash.
UpdateParametersRefused ==
  /\ exc["main"] = "NotImplementedError"
  /\ Depth("main") = 0
  /\ \E i \in Insts :
       /\ Live(i) /\ locked[i] /\ itype[i] = "Ishiyama21"
       /\ cached_repr[i] # NoRepr /\ cached_hash[i] # NoHash

\* C15: a scope whose target is not a CCLObject is a pass-through.  Opening
\* it, by a with statement or by a call of a wrapped function, raises
\* nothing and changes no lock; closing it changes no lock, cache or
\* attribute and raises nothing, so the body starts and ends as it would
\* without the scope.  Checked under CallSpec.
ForeignScopePassesThrough ==
  [][/\ \A m \in BOOLEAN :
          EnterWith("main", Foreign, m)
            => (Pushes("main") /\ exc' = exc /\ UNCHANGED <<locked, lock_id>>)
     /\ (Pushes("main") /\ New("main").inst = Foreign)
          => (exc' = exc /\ UNCHANGED <<locked, lock_id>>)
     /\ (Pops("main") /\ Top("main").inst = Foreign)
          => (exc' = exc /\ UNCHANGED <<locked, lock_id, cached_repr, cached_hash, attrs>>)]_vars

\* C15 witness: inside a with scope on a foreign value a wrapped function
\* was called with a foreign target, while the instance stays locked.
ForeignScopesOpen ==
  /\ Depth("main") = 2
  /\ stack["main"][1].inst = Foreign /\ stack["main"][1].kind = "with"
  /\ stack["main"][2].inst = Foreign /\ stack["main"][2].kind = "call"
  /\ exc["main"] = "none"
  /\ \E i \in Insts : Live(i) /\ locked[i]

\* C16: unlock_instance(name=n) on a function that has no parameter n raises
\* NameError when it is applied: no wrapper is produced and nothing is
\* called.  Without a name, the wrapper's target is the first parameter.
\* Checked under CallSpec.
WrapChecksName ==
  [][\A sig \in Signatures, name \in DecoNames, m \in BOOLEAN :
       Decorate("main", sig, name, m)
         => /\ (name # NoName /\ name \notin Names(sig))
                 => /\ exc'["main"] = "NameError"
                    /\ UNCHANGED <<wrapper, stack, locked, lock_id>>
            /\ (name = NoName /\ sig # <<>>)
                 => /\ exc' = exc
                    /\ wrapper' = [sig |-> sig, name |-> sig[1].name, mutate |-> m]]_vars

\* C16 witness: a wrapper whose target is the first parameter "item" (chosen
\* by default, since no decoration names it) exists, and a later decoration
\* has raised NameError.
WrapRefusedName ==
  /\ exc["main"] = "NameError"
  /\ wrapper # NoWrapper
  /\ wrapper.name = "item"

\* C17: a call of a wrapper with arguments that do not bind to the signature
\* (too many positional arguments, an unknown or repeated name, a missing
\* required parameter) raises TypeError: no scope is opened, the function
\* does not run, and no lock or cache changes.  Checked under CallSpec.
UnbindableCallFails ==
  [][\A call \in Calls :
       (wrapper # NoWrapper /\ ~Binds(wrapper.sig, call) /\ CallWrapped("main", call))
         => /\ exc'["main"] = "TypeError"
            /\ UNCHANGED <<stack, attrs, locked, lock_id, cached_repr, cached_hash>>]_vars

\* C17 witness: a call has just failed with TypeError, outside every scope,
\* while the instance is locked and holds its caches.
UnbindableCallRefused ==
  /\ exc["main"] = "TypeError"
  /\ Depth("main") = 0
  /\ wrapper # NoWrapper
  /\ \E i \in Insts : Live(i) /\ locked[i] /\ cached_hash[i] # NoHash

\* C18: two threads enter scopes on the same instance.  The check of the
\* active scope id and its assignment are one atomic step: a scope records
\* its id only while no id is recorded, and a recorded id changes only when
\* the scope that recorded it exits.  Checked under ConcSpec.
EntryIsAtomic ==
  [][/\ \A th \in Threads :
          UnlockSetId(th) => lock_id[pc[th].inst] = NoId
     /\ \A i \in Insts :
          (lock_id[i] # NoId /\ lock_id'[i] # lock_id[i])
            => \E th \in Threads :
                 /\ LockClearId(th)
                 /\ pc[th].scope /\ pc[th].inst = i /\ pc[th].id = lock_id[i]]_vars

\* C19: an assignment by a thread that holds no scope on a live instance
\* raises AttributeError and changes no attribute, also while another
\* thread's scope is open on the instance.  Stated for the states in which
\* no thread is inside __enter__ or __exit__; checked under ConcSpec.
OutsiderWriteFails ==
  [][\A th \in Threads, i \in Solo, v \in Values :
       (/\ Live(i) /\ ~Holds(th, i)
        /\ \A t \in Threads : pc[t] = Idle
        /\ SetAttr(th, i, "a", v))
         => (exc'[th] = "AttributeError" /\ attrs' = attrs)]_vars

\* Some thread is between the two assignments of lock() or unlock() on the
\* lock of instance i.
InLockMethod(i) ==
  \E th \in Threads : pc[th].inst = i /\ pc[th].at \in {"unlock_id", "lock_id"}

\* C20: whatever the interleaving of scope entries and exits and of direct
\* lock() and unlock() calls, a lock that no thread is in the middle of
\* updating holds a scope id only while it is unlocked.  Checked under
\* LockSpec.
LockIdOnlyWhileUnlocked ==
  \A i \in Insts :
    (Live(i) /\ ~InLockMethod(i)) => (lock_id[i] # NoId => ~locked[i])

\* No scope is open and no thread is inside __enter__ or __exit__.
AllScopesExited == \A th \in Threads : Depth(th) = 0 /\ pc[th] = Idle

\* C21: whatever the interleaving of the scopes that two threads open on a
\* constructed instance, once every scope that was opened has exited the
\* instance is locked and holds no scope id.  Checked under ConcSpec.
RelockedAfterAllExits ==
  \A i \in Insts :
    (Live(i) /\ AllScopesExited) => (locked[i] /\ lock_id[i] = NoId)

\* C22: scopes of two threads on one instance are serialized: an assignment
\* made by a thread inside the body of a scope it opened on the instance
\* succeeds, whatever the other thread has done in the meantime.  Stated for
\* the states in which no thread is inside __enter__ or __exit__; checked
\* under ConcSpec.
ScopeBodyWriteSucceeds ==
  [][\A th \in Threads, i \in Solo, v \in Values :
       (/\ Live(i) /\ Holds(th, i)
        /\ \A t \in Threads : pc[t] = Idle
        /\ SetAttr(th, i, "a", v))
         => (exc'[th] = "none" /\ attrs'[i]["a"] = v)]_vars

\* C23: the registry controls are reachable only through CCLObject: reading
\* _fancy_repr on a subclass of CCLObject, or on an instance of a subclass,
\* raises AttributeError; enable() / disable() does not run, so the enabled
\* flag, the registered classes and every class's __repr__ and _repr are
\* unchanged.  Checked under RegistrySpec.
FancyReprOnlyThroughBase ==
  [][\A op \in Controls :
       /\ \A c \in ClassNames \ {"CCLObject"} :
            ControlViaClass("main", c, op)
              => /\ exc'["main"] = "AttributeError"
                 /\ UNCHANGED <<enabled, classes, repr_slot, repr_prop>>
       /\ \A i \in Insts :
            (itype[i] # "CCLObject" /\ ControlViaInstance("main", i, op))
              => /\ exc'["main"] = "AttributeError"
                 /\ UNCHANGED <<enabled, classes, repr_slot, repr_prop>>]_vars

\* C23 witness: an access has just failed while the registry was disabled
\* and an instance of a registered class, read before and after the
\* disable(), exists.
FancyReprAccessRefused ==
  /\ exc["main"] = "AttributeError"
  /\ ~enabled
  /\ \E i \in Insts :
       /\ Live(i) /\ itype[i] = "SubProfile"
       /\ cached_repr[i] # NoRepr /\ cached_hash[i] = StrHash(ObjectRepr(i))

\* C24: the construction of an emulator calls _load if and only if the
\* entry of its name holds no model or a configuration other than the
\* instance's; emulators of one name constructed one after the other with
\* the same configuration load the model once, whatever their number.
\* Checked under EmuSpec.
LoadsIffMissingOrChanged ==
  /\ [][\A c \in EmuClasses, cfg \in Configs :
          NewEmulator("main", c, cfg)
            => ((loads'[EmuDef[c].name] = loads[EmuDef[c].name] + 1)
                  <=> (\/ emulators[EmuDef[c].name].model = NoModel
                       \/ emulators[EmuDef[c].name].config # cfg))
               /\ (loads'[EmuDef[c].name] \in {loads[EmuDef[c].name],
                                               loads[EmuDef[c].name] + 1})]_vars
  /\ [](\A n \in EmuNames : streak[n] # NoStreak => streak[n].loaded = 1)

\* C24 witness: after emulators of other configurations, three calls of
\* _load in all, several emulators of name "one" were constructed with the
\* same configuration, and bounds were stored.
SameConfigAgain ==
  /\ loads["one"] = MaxLoads
  /\ streak["one"].config = 0
  /\ streak["one"].again
  /\ emulators["one"].config = 0
  /\ emulators["one"].bounds # NoBounds
  /\ emulators["two"].model # NoModel

\* C25: when the scope that unlocked an instance has mutate = True, its exit
\* (on return or on an exception) leaves the instance with neither a cached
\* representation nor a cached hash, whichever of the two it held before,
\* also when it held only the hash.
MutatingExitClearsBoth ==
  [][\A i \in Insts :
       (/\ Pops("main") /\ Top("main").inst = i
        /\ Owner(Top("main")) /\ Top("main").mutate)
         => (cached_repr'[i] = NoRepr /\ cached_hash'[i] = NoHash)]_vars

\* C26: partial mutations are not rolled back.  From the assignment that
\* succeeds in a scope to the relocked instance, no step that raises an
\* exception, lets it leave a scope or handles it changes an attribute of an
\* instance that remains in use: the values assigned before the error are
\* the values of the locked instance.
PartialMutationKept ==
  [][\A i \in Insts :
       ((~Running("main") \/ exc'["main"] # "none") /\ phase'[i] # "free")
         => attrs'[i] = attrs[i]]_vars

\* C26 witness: the body of a scope on an instance of Profile assigned both
\* attributes and raised; the exception has left the scope and the instance
\* is locked with the assigned values.
RaisedAfterWrites ==
  /\ exc["main"] = "Error"
  /\ Depth("main") = 0
  /\ \E i \in Insts :
       /\ Live(i) /\ itype[i] = "Profile" /\ locked[i] /\ lock_id[i] = NoId
       /\ attrs[i] = [f \in Fields |-> 1]

\* The attributes listed in __eq_attrs__ have the same values in x and y.
SameEqAttrs(x, y) ==
  \A k \in 1..Len(EqAttrs(itype[x])) :
    attrs[x][EqAttrs(itype[x])[k]] = attrs[y][EqAttrs(itype[x])[k]]

NonMutatingExitKeepsCaches ==
  [][\A i \in Insts :
       (/\ Pops("main") /\ Top("main").inst = i
        /\ Owner(Top("main")) /\ ~Top("main").mutate)
         => /\ cached_repr'[i] = cached_repr[i]
            /\ cached_hash'[i] = cached_hash[i]
            /\ locked'[i] /\ lock_id'[i] = NoId
            /\ Running("main") => attrs'[i] = attrs[i]]_vars

\* C28 witness: a locked instance of a class with a wrapped __init__ holds a
\* hash and a representation that was cached before an attribute of the
\* representation was assigned: the scope that relocked it kept them.
CachesKeptAcrossExit ==
  /\ Depth("main") = 0
  /\ \E i \in Insts :
       /\ Live(i) /\ itype[i] = "Ishiyama21" /\ locked[i] /\ lock_id[i] = NoId
       /\ dirty[i]
       /\ cached_hash[i] # NoHash

\* repr(x) is evaluated in the step: by repr(x) itself, or by hash(x) when
\* no hash is cached.
ReadsRepr(i) == ReadRepr("main", i) \/ (cached_hash[i] = NoHash /\ ReadHash("main", i))

\* C29: the custom representation of a registered class is cached per
\* instance.  While the registry is enabled, a read that finds nothing
\* stored computes the custom representation and stores it; a read that
\* finds a stored string returns it and leaves it stored, whatever the
\* attributes are now.  A stored string is removed only by the exit of the
\* scope that unlocked the instance, with mutate = True.  A read of the
\* representation or of the hash raises nothing and changes neither the
\* attributes nor the lock.
ReprCachedUntilInvalidated ==
  [][\A i \in Insts :
       (phase[i] # "free" /\ Registered(itype[i]) # "object")
         => /\ (enabled /\ ReadsRepr(i) /\ cached_repr[i] = NoRepr)
                 => cached_repr'[i] = CustomRepr(Registered(itype[i]), i)
            /\ (enabled /\ cached_repr[i] # NoRepr)
                 => Repr(i) = cached_repr[i]
            /\ (cached_repr[i] # NoRepr /\ cached_repr'[i] # cached_repr[i])
                 => /\ Pops("main") /\ Top("main").inst = i
                    /\ Owner(Top("main")) /\ Top("main").mutate
            /\ (ReadRepr("main", i) \/ ReadHash("main", i))
                 => /\ exc' = exc
                    /\ UNCHANGED <<attrs, locked, lock_id>>]_vars

\* C29 witness: a locked instance of Profile whose stored representation is
\* not the one its attributes would give now, and whose hash was read from
\* it: reads return the stored string.
StoredReprReturned ==
  /\ enabled
  /\ \E i \in Insts :
       /\ Live(i) /\ itype[i] = "Profile" /\ locked[i]
       /\ cached_repr[i] # NoRepr
       /\ cached_repr[i] # ComputeRepr(i)
       /\ cached_hash[i] = StrHash(cached_repr[i])

\* C30: a call of a wrapper whose arguments bind to the signature runs the
\* function in a scope of the wrapper and raises nothing of its own, also
\* when the designated parameter has a default and is not passed.  Checked
\* under CallSpec.
BindableCallRuns ==
  [][\A call \in Calls :
       (wrapper # NoWrapper /\ Binds(wrapper.sig, call) /\ CallWrapped("main", call))
         => /\ Pushes("main")
            /\ New("main").kind = "call"
            /\ New("main").mutate = wrapper.mutate
            /\ exc' = exc]_vars

\* C31: once an enable() and a disable() that ran at the same time have both
\* returned, all registered classes use the same __repr__, the cached custom
\* one or object.__repr__, and it is the one the flag _enabled names.
\* Checked under ToggleSpec.
ToggleLeavesOneStrategy ==
  NoToggleRuns =>
    \A c \in classes : repr_slot[c] = (IF enabled THEN "ccl" ELSE "object")

\* C32: a call of lock() leaves the lock locked with no scope id; a call of
\* unlock() leaves it unlocked, with the manager id it was given, or with the
\* scope id it had when it was given none; neither changes anything else of
\* the instance.  repr of the lock shows the current value of the flag.
\* Checked under ObjLockSpec.
LockMethodsPostconditions ==
  /\ [][\A i \in Solo :
          /\ DirectLock("main", i)
               => /\ locked'[i] /\ lock_id'[i] = NoId
                  /\ UNCHANGED <<attrs, cached_repr, cached_hash, stack, exc>>
          /\ \A id \in ManagerIds :
               DirectUnlock("main", i, id)
                 => /\ ~locked'[i]
                    /\ lock_id'[i] = (IF id # NoId THEN id ELSE lock_id[i])
                    /\ UNCHANGED <<attrs, cached_repr, cached_hash, stack, exc>>]_vars
  /\ [](\A i \in Insts :
          LockRepr([locked |-> locked[i], lock_id |-> lock_id[i]])
            = [cls |-> "ObjectLock", locked |-> locked[i]])

\* C32 witness: no scope is open and the lock of the instance is unlocked
\* with a scope id: unlock(manager_id) recorded it, and an unlock() after a
\* lock() would have left none.
UnlockedWithGivenId ==
  /\ Depth("main") = 0
  /\ \E i \in Insts :
       /\ Live(i) /\ itype[i] = "Ishiyama21"
       /\ ~locked[i] /\ lock_id[i] = 2
       /\ attrs[i]["a"] = 1

\* C33: the constructor of a halo-model ingredient raises ValueError exactly
\* when the class's _check_mass_def_strict flags the given mass definition
\* and the class is strict-always or mass_def_strict is true; a
\* Concentration is constructed with mass_def_strict true, and one that is
\* returned has a mass definition its check does not flag; after the
\* ValueError the attribute mass_def is not assigned.  Checked under
\* HaloSpec.
RaisesIffStrictAndIncompatible ==
  \A s \in Slots :
    LET o == ingredients[s]
    IN  o.cls # "-" =>
          /\ (o.error = "ValueError")
               <=> /\ CheckMassDefStrict(o, o.given)
                   /\ (MassDefStrictAlways(o.cls) \/ o.mass_def_strict)
          /\ o.cls \in Concentrations => o.mass_def_strict
          /\ (o.cls \in Concentrations /\ o.error = "none")
               => /\ o.mass_def = o.given
                  /\ ~CheckMassDefStrict(o, o.mass_def)
          /\ o.error = "ValueError"
               => /\ "mass_def" \notin o.has
                  /\ o.mass_def = NoMassDef
                  /\ "mass_def_strict" \in o.has
          /\ o.error = "none" => "mass_def" \in o.has

\* C33 witness: a mass function was constructed with a friends-of-friends
\* mass definition and the check relaxed, and the same construction with the
\* strict check raised, having assigned mass_def_strict only.
RelaxedBuiltStrictRefused ==
  /\ ingredients[1].cls = "MassFuncTinker08"
  /\ ingredients[1].given.Delta = "fof"
  /\ ~ingredients[1].mass_def_strict
  /\ ingredients[1].error = "none"
  /\ ingredients[1].mass_def.name = "fof"
  /\ ingredients[2].cls = "MassFuncTinker08"
  /\ ingredients[2].given.Delta = "fof"
  /\ ingredients[2].mass_def_strict
  /\ ingredients[2].error = "ValueError"
  /\ ingredients[2].has = {"mass_def_strict"}

\* C34: the constructor of ConcentrationDuffy08, ConcentrationBhattacharya13
\* and ConcentrationIshiyama21 either raises the ValueError of the
\* mass-definition check or returns with every fit parameter assigned: for
\* every mass definition and flags that pass the check, the table of _setup
\* has the key.  Checked under HaloSpec.
SetupTableCoversCheck ==
  \A s \in Slots :
    LET o == ingredients[s]
    IN  o.cls \in Concentrations =>
          /\ o.error \in {"none", "ValueError"}
          /\ o.error = "ValueError" <=> CheckMassDefStrict(o, o.given)
          /\ o.error = "none"
               => /\ SetupKey(o) \in SetupKeys(o.cls)
                  /\ FitParams(o.cls) \subseteq o.has
          /\ o.error = "ValueError" => o.has \cap FitParams(o.cls) = {}

\* C34 witness: Ishiyama21 was constructed for 500c masses and relaxed halos
\* with profile fitting, which the table has, and refused for 500c masses
\* with the Vmax method, which the table has not.
Ishiyama500cBothWays ==
  /\ ingredients[1].cls = "ConcentrationIshiyama21"
  /\ ingredients[1].mass_def.name = "500c"
  /\ ingredients[1].relaxed /\ ~ingredients[1].Vmax
  /\ ingredients[1].error = "none"
  /\ "kappa" \in ingredients[1].has
  /\ ingredients[2].cls = "ConcentrationIshiyama21"
  /\ ingredients[2].given.name = "500c"
  /\ ingredients[2].Vmax
  /\ ingredients[2].error = "ValueError"
  /\ <<TRUE, ingredients[2].relaxed, "500">> \notin SetupKeys("ConcentrationIshiyama21")

\* C35: whenever an emulator of a name has been constructed, the entry of
\* the name holds a model, which is the one loaded for the configuration of
\* the emulator of that name constructed last, and that configuration; the
\* construction of an emulator, completed or failed, changes no entry of
\* another name.  Checked under EmuSpec.
EntryFollowsLastConstruction ==
  /\ [](\A n \in EmuNames :
          streak[n] # NoStreak
            => /\ emulators[n].present
               /\ emulators[n].model # NoModel
               /\ emulators[n].config = streak[n].config
               /\ emulators[n].model.config = streak[n].config)
  /\ [][\A c \in EmuClasses, cfg \in Configs :
          NewEmulator("main", c, cfg)
            => \A n \in EmuNames \ {EmuDef[c].name} : emulators'[n] = emulators[n]]_vars

\* C35 witness: emulators of the names "one" and "two" have been
\* constructed, the last of "one" with another configuration than the one
\* before and than the last of "two", bounds are stored under "two", and a
\* construction that failed has left an entry without a model under
\* "emulator_base".
EntriesOfThreeNames ==
  /\ streak["one"].config = 1 /\ loads["one"] >= 2
  /\ emulators["one"].config = 1
  /\ streak["two"].config = 0
  /\ emulators["two"].bounds = 1
  /\ emulators["emulator_base"].present
  /\ emulators["emulator_base"].model = NoModel

\* A proposed parameter lies outside its stored bounds.
Outside(b, item) ==
  /\ b[item[1]] # NoBound
  /\ (item[2] < b[item[1]][1] \/ item[2] > b[item[1]][2])

\* C36: Bounds(b) raises ValueError exactly when some parameter of b has a
\* minimum above its maximum, and otherwise stores b; check_bounds raises
\* ValueError exactly when some proposed parameter with stored bounds lies
\* below its vmin or above its vmax, whatever parameters without stored
\* bounds are proposed with it; it warns about parameters without stored
\* bounds only, about all of them when it raises nothing; and it leaves the
\* stored bounds as they are.  Checked under BoundsSpec.
BoundsRejectExactlyOutside ==
  /\ [](checked.op = "init"
          => /\ checked.error = "ValueError"
                  <=> \E p \in Params : /\ checked.arg[p] # NoBound
                                        /\ checked.arg[p][1] > checked.arg[p][2]
             /\ checked.error = "none"
                  => stored_bounds = [made |-> TRUE, bounds |-> checked.arg])
  /\ [](checked.op = "check"
          => LET b == stored_bounds.bounds
                 items == {checked.proposal[k] : k \in DOMAIN checked.proposal}
                 unknown == {item[1] : item \in {it \in items : b[it[1]] = NoBound}}
             IN  /\ checked.error \in {"none", "ValueError"}
                 /\ checked.error = "ValueError" <=> \E item \in items : Outside(b, item)
                 /\ checked.warned \subseteq unknown
                 /\ checked.error = "none" => checked.warned = unknown)
  /\ [](stored_bounds.made
          => \A p \in Params : stored_bounds.bounds[p] # NoBound
                                 => stored_bounds.bounds[p][1] <= stored_bounds.bounds[p][2])
  /\ [][\A proposal \in Proposals :
          CheckBounds(proposal) => stored_bounds' = stored_bounds]_vars

\* C36 witness: a proposal with a value on the lower limit of p, and a
\* parameter that has no stored bounds, has passed with the one warning,
\* the upper limit of p being above.
LimitAcceptedUnknownWarned ==
  /\ stored_bounds.made
  /\ stored_bounds.bounds["p"] = <<1, 2>>
  /\ stored_bounds.bounds["q"] = NoBound
  /\ checked.op = "check"
  /\ checked.proposal = <<<<"q", 0>>, <<"p", 1>>>>
  /\ checked.error = "none"
  /\ checked.warned = {"q"}

====
